---- MODULE Spec2Model ----
(***************************************************************************)
(* State-machine model of the ESP32 BLE bridge (esp32-ble-bridge/main):    *)
(*   mesh_crypto.c   - security context, sequence counter, PDU assembly    *)
(*   ble_mesh.c      - proxy connections and the send path                 *)
(*   ws_server.c     - the command dispatcher                              *)
(*   effect_engine.c - the software effect engine and its one-shot timers  *)
(*   light_registry.c- the fixture directory                               *)
(*                                                                         *)
(* Every handler (a controller command, a GATT/GAP event, a timer          *)
(* callback) is one action.  The functions a handler calls are operators   *)
(* over a record W ("world") holding the state they may change; the action *)
(* commits the final W to the variables.                                   *)
(***************************************************************************)
EXTENDS Integers, Sequences, FiniteSets, TLC

VARIABLES
    \* mesh_crypto.c static state
    s_network_key, s_app_key, s_iv_index, s_src_address,
    s_encryption_key, s_privacy_key, s_nid, s_aid,
    s_sequence_number, s_initialized,
    \* ble_mesh.c static state
    s_proxies, s_proxy_count, s_scanning,
    \* light_registry.c
    lights,
    \* effect_engine.c: the instance pool and the callbacks the timer task
    \* has already taken off the timer list but not yet run
    s_instances, inflight,
    \* observation of the outside world
    pdu_log,     \* proxy PDUs built so far (and whether/where they were written)
    outputs,     \* ble_mesh_send_cct/hsi calls made by the last handler
    events,      \* events handed to ws_server_send by the last handler
    last,        \* which handler ran last, and the counter values it started from
    stopped,     \* per unicast: effect_engine_stop returned, no start since
    \* statement-level tasks of the concurrent specification
    pc, reg, tseq

cryptoVars == <<s_network_key, s_app_key, s_iv_index, s_src_address,
                s_encryption_key, s_privacy_key, s_nid, s_aid, s_initialized>>
bleVars    == <<s_proxies, s_proxy_count, s_scanning>>
engineVars == <<s_instances, inflight, stopped>>
taskVars   == <<pc, reg, tseq>>
vars == <<cryptoVars, s_sequence_number, bleVars, lights, engineVars,
          pdu_log, outputs, events, last, taskVars>>

-----------------------------------------------------------------------------
(* Program constants *)

MAX_LIGHTS == 9
MAX_PROXY_CONNECTIONS == 4
INVALID_HANDLE == 0
SEQ_INITIAL == 65536            \* 0x010000
OUT_MAX == 64                   \* sizeof(pdu) in send_mesh_pdu / send_proxy_filter_setup
ACCESS_LEN == 11
NO_CONN_ID == 65535             \* 0xFFFF

(* Bounds of the model *)

MaxPdus == 2                    \* PDUs built in one explored run
NumProxyDevices == 2            \* mesh proxy nodes in radio range
MaxInflight == 1                \* callbacks taken by the timer task and not yet run
MaxConcPdus == 2                \* PDUs each concurrent task builds

Unicasts == {256, 257}          \* 0x0100, 0x0101
ProxySlots == 0 .. (MAX_PROXY_CONNECTIONS - 1)
LightSlots == 0 .. (MAX_LIGHTS - 1)
ProxyAddrs == 1 .. NumProxyDevices
ConnIds == 1 .. NumProxyDevices
SEQ24 == 256 * 65536            \* 2^24: the three SEQ bytes carry seq mod 2^24
ABSENT == 0 - 1                 \* a JSON field that is not present

\* The key sets a controller supplies with set_keys (16-byte keys are named by
\* small numbers; src = ABSENT means the optional src_address is not given).
KeySets == { [nk |-> 2, ak |-> 1, iv |-> 2, src |-> ABSENT],
             [nk |-> ABSENT, ak |-> 2, iv |-> 1, src |-> 1] }

-----------------------------------------------------------------------------
(* mesh_crypto.c: key derivation *)

\* AES-CMAC (mbedtls_cipher_cmac) is a library primitive; the model keeps it a
\* deterministic mixing function of key and message so that derived values
\* depend on every input of the derivation.
RECURSIVE CmacFold(_, _, _)
CmacFold(h, msg, i) ==
    IF i > Len(msg) THEN h
    ELSE CmacFold((h * 31 + msg[i] + 7) % 65521, msg, i + 1)

aes_cmac(key, msg) == CmacFold((key * 131 + 17) % 65521, msg, 1)

mesh_crypto_s1(m) == aes_cmac(0, m)

\* "smk2", "smk4", "id6" as byte strings
SMK2 == <<115, 109, 107, 50>>
SMK4 == <<115, 109, 107, 52>>
ID6  == <<105, 100, 54, 1>>

mesh_crypto_k2(n, p) ==
    LET salt == mesh_crypto_s1(SMK2)
        t    == aes_cmac(salt, <<n>>)
        t1   == aes_cmac(t, p \o <<1>>)
        t2   == aes_cmac(t, <<t1>> \o p \o <<2>>)
        t3   == aes_cmac(t, <<t2>> \o p \o <<3>>)
    IN  [nid |-> t1 % 128, enc |-> t2, priv |-> t3]

mesh_crypto_k4(n) ==
    LET salt == mesh_crypto_s1(SMK4)
        t    == aes_cmac(salt, <<n>>)
    IN  aes_cmac(t, ID6) % 64

-----------------------------------------------------------------------------
(* mesh_crypto.c: nonces and PDU assembly *)

Byte(x, shift) == (x \div shift) % 256

\* s_sequence_number is a uint32_t.  It is kept as the pair of its top byte
\* (hi, bits 24..31) and its low 24 bits (lo): the value is hi * 2^24 + lo.
\* (uint8_t)(seq >> 16), (seq >> 8), seq all lie in lo.
U32(hi, lo) == [hi |-> hi, lo |-> lo]
SeqByte(seq, shift) == Byte(seq.lo, shift)
SeqLess(a, b) == a.hi < b.hi \/ (a.hi = b.hi /\ a.lo < b.lo)

build_application_nonce(seq, src, dst, iv_index) ==
    << 1, 0,
       SeqByte(seq, 65536), SeqByte(seq, 256), SeqByte(seq, 1),
       Byte(src, 256), Byte(src, 1),
       Byte(dst, 256), Byte(dst, 1),
       Byte(iv_index, 16777216), Byte(iv_index, 65536),
       Byte(iv_index, 256), Byte(iv_index, 1) >>

build_network_nonce(ctl, ttl, seq, src, iv_index) ==
    << 0, (ctl * 128 + (ttl % 128)) % 256,
       SeqByte(seq, 65536), SeqByte(seq, 256), SeqByte(seq, 1),
       Byte(src, 256), Byte(src, 1),
       0, 0,
       Byte(iv_index, 16777216), Byte(iv_index, 65536),
       Byte(iv_index, 256), Byte(iv_index, 1) >>

\* The plaintext header obfuscate() XORs with PECB[0..5].
obfuscate_header(ctl_ttl, seq, src) ==
    << ctl_ttl, SeqByte(seq, 65536), SeqByte(seq, 256), SeqByte(seq, 1),
       Byte(src, 256), Byte(src, 1) >>

\* aes_ccm_encrypt: the length it returns (0 on failure).
aes_ccm_encrypt(pt_len, mic_size) ==
    IF mic_size # 4 /\ mic_size # 8 THEN 0 ELSE pt_len + mic_size

\* What the environment decides during one handler: t1, t2 are the outcomes
\* of rand_double draws as a percentage of the way from lo to hi, n is the
\* esp_random() value behind rand_int, td is the draw behind a random delay,
\* arm is the outcome of the timer calls in arm_timer.
NoDraw == [t1 |-> 0, t2 |-> 0, n |-> 0, td |-> 0, arm |-> "ok"]

\* The state a handler's calls may change.
\* The calloc and free calls on timer contexts that a handler has made so far.
NoHeapCalls == [calloc |-> 0, free |-> 0]

World == [seq   |-> s_sequence_number,
          log   |-> pdu_log,
          ret   |-> 0,
          rets  |-> << >>,
          ev    |-> << >>,
          out   |-> << >>,
          lights |-> lights,
          inst  |-> s_instances,
          rnd   |-> NoDraw,
          heap  |-> NoHeapCalls,
          note  |-> << >>]

\* What is recorded of one proxy PDU: byte 0, the IVI/NID byte, the counter
\* value used, the three SEQ bytes carried in its nonces and header, its
\* length, and (once handed to esp_ble_gattc_write_char) the proxy slot it
\* was written to.  ctx names the security context it was encrypted under:
\* the encryption key, the source address and the IV index.
Pdu(fn, hdr, mc, nid_byte, seq, nonce, app_nonce, header, len) ==
    [fn |-> fn, hdr |-> hdr, nid_byte |-> nid_byte, seq |-> seq,
     ctx |-> <<mc.enc, mc.src, mc.iv_index>>,
     SEQ |-> SubSeq(nonce, 3, 5),
     seq_ok |-> /\ SubSeq(header, 2, 4) = SubSeq(nonce, 3, 5)
                /\ SubSeq(app_nonce, 3, 5) = SubSeq(nonce, 3, 5),
     len |-> len, px |-> -1, old |-> FALSE]

\* s_sequence_number++ on a uint32_t: it wraps from 0xFFFFFFFF to 0.
NextSeq(s) ==
    IF s.lo + 1 < SEQ24 THEN [s EXCEPT !.lo = @ + 1]
    ELSE U32((s.hi + 1) % 256, 0)

\* mesh_crypto_create_standard_pdu from the point where the local seq holds
\* the sequence value, under security context mc.
StandardPduWith(W, mc, seq, access_len, dst, out_max) ==
    LET src  == mc.src
        ttl  == 7
        app_nonce == build_application_nonce(seq, src, dst, mc.iv_index)
        enc_access_len == aes_ccm_encrypt(access_len, 4)
        ltp_len == 1 + enc_access_len
        ivi == mc.iv_index % 2
        nid_byte == ivi * 128 + (mc.nid % 128)
        ctl_ttl == ttl % 128
        net_nonce == build_network_nonce(0, ttl, seq, src, mc.iv_index)
        dst_transport_len == 2 + ltp_len
        enc_net_len == aes_ccm_encrypt(dst_transport_len, 4)
        header == obfuscate_header(ctl_ttl, seq, src)
        total_len == 1 + (1 + 6 + enc_net_len)
        fail == [W EXCEPT !.ret = 0, !.rets = Append(@, 0)]
    IN  IF enc_access_len = 0 THEN fail
        ELSE IF enc_net_len = 0 THEN fail
        ELSE IF total_len > out_max THEN fail
        ELSE [W EXCEPT !.ret = total_len, !.rets = Append(@, total_len),
                       !.log = Append(@, Pdu("std", 0, mc, nid_byte, seq, net_nonce,
                                             app_nonce, header, total_len))]

\* The body of mesh_crypto_create_standard_pdu after the initialisation check:
\* s_sequence_number++; seq = s_sequence_number; and the assembly.
StandardPduBody(W, mc, access_len, dst, out_max) ==
    LET seq1 == NextSeq(W.seq)
    IN  StandardPduWith([W EXCEPT !.seq = seq1], mc, seq1, access_len, dst, out_max)

\* The security context the PDU builders read.
Ctx == [iv_index |-> s_iv_index, src |-> s_src_address, nid |-> s_nid, aid |-> s_aid,
        enc |-> s_encryption_key]

\* A builder without the s_initialized check.
create_standard_pdu_unguarded(W, access_len, dst, out_max) ==
    StandardPduBody(W, Ctx, access_len, dst, out_max)

mesh_crypto_create_standard_pdu(W, access_len, dst, out_max) ==
    IF ~s_initialized
    THEN [W EXCEPT !.ret = 0, !.rets = Append(@, 0)]
    ELSE StandardPduBody(W, Ctx, access_len, dst, out_max)

FilterSetupBody(W, mc, out_max) ==
    LET seq1 == NextSeq(W.seq)
        seq  == seq1
        src  == mc.src
        dst  == 0
        ltp_len == 2
        ivi == mc.iv_index % 2
        nid_byte == ivi * 128 + (mc.nid % 128)
        ctl_ttl == 128
        net_nonce == build_network_nonce(1, 0, seq, src, mc.iv_index)
        dst_transport_len == 2 + ltp_len
        enc_net_len == aes_ccm_encrypt(dst_transport_len, 8)
        header == obfuscate_header(ctl_ttl, seq, src)
        total_len == 1 + (1 + 6 + enc_net_len)
        W1 == [W EXCEPT !.seq = seq1]
        fail == [W1 EXCEPT !.ret = 0, !.rets = Append(@, 0)]
    IN  IF enc_net_len = 0 THEN fail
        ELSE IF total_len > out_max THEN fail
        ELSE [W1 EXCEPT !.ret = total_len, !.rets = Append(@, total_len),
                        !.log = Append(@, Pdu("filter", 2, mc, nid_byte, seq, net_nonce,
                                              net_nonce, header, total_len))]

mesh_crypto_create_proxy_filter_setup(W, out_max) ==
    IF ~s_initialized
    THEN [W EXCEPT !.ret = 0, !.rets = Append(@, 0)]
    ELSE FilterSetupBody(W, Ctx, out_max)

-----------------------------------------------------------------------------
(* ws_server.c: events published to the controller *)

ws_server_notify_light_status(W, unicast, connected) ==
    [W EXCEPT !.ev = Append(@, [event |-> "light_status", unicast |-> unicast,
                                connected |-> connected])]

ws_server_notify_error(W, message) ==
    [W EXCEPT !.ev = Append(@, [event |-> "error", unicast |-> 0,
                                connected |-> FALSE])]

-----------------------------------------------------------------------------
(* ble_mesh.c *)

NoProxy == [active |-> FALSE, ready |-> FALSE, ble_addr |-> 0, conn_id |-> 0,
            data_in_handle |-> INVALID_HANDLE]

ProxyReady(i) == s_proxies[i].active /\ s_proxies[i].ready
ReadySlots == {i \in ProxySlots : ProxyReady(i)}

ble_mesh_is_proxy_connected(proxies) ==
    \E i \in ProxySlots : proxies[i].active /\ proxies[i].ready

find_proxy_by_conn_id(conn_id) ==
    LET S == {i \in ProxySlots : s_proxies[i].active /\ s_proxies[i].conn_id = conn_id}
    IN  IF S = {} THEN -1 ELSE CHOOSE i \in S : \A j \in S : i <= j

find_proxy_by_addr(addr) ==
    LET S == {i \in ProxySlots : s_proxies[i].active /\ s_proxies[i].ble_addr = addr}
    IN  IF S = {} THEN -1 ELSE CHOOSE i \in S : \A j \in S : i <= j

alloc_proxy_slot ==
    LET S == {i \in ProxySlots : ~s_proxies[i].active}
    IN  IF S = {} THEN -1 ELSE CHOOSE i \in S : \A j \in S : i <= j

\* A write that never reaches the link.
GattcWriteCharDropped(W, i) == W

\* esp_ble_gattc_write_char on proxy slot i: the PDU just built is handed to
\* the link.
GattcWriteChar(W, i) ==
    LET n == Len(W.log)
    IN  [W EXCEPT !.log[n].px = i]

\* ble_mesh_write: wfail is the set of proxy slots on which the stack reports
\* an error for the write; ok says that ESP_OK is returned.
ble_mesh_write(W, i, handle, wfail) ==
    IF handle = INVALID_HANDLE
    THEN [w |-> W, ok |-> FALSE]
    ELSE [w |-> GattcWriteChar(W, i), ok |-> i \notin wfail]

\* The result of the write is not looked at.
send_proxy_filter_setup(W, i, proxies) ==
    LET W1 == mesh_crypto_create_proxy_filter_setup(W, OUT_MAX)
    IN  IF W1.ret > 0 /\ proxies[i].data_in_handle # INVALID_HANDLE
        THEN GattcWriteChar(W1, i)
        ELSE W1

RECURSIVE notify_loop(_, _, _)
notify_loop(W, i, connected) ==
    IF i >= MAX_LIGHTS THEN W
    ELSE IF W.lights[i].registered
         THEN notify_loop(
                 ws_server_notify_light_status(
                     [W EXCEPT !.lights[i].connected = connected],
                     W.lights[i].unicast, connected),
                 i + 1, connected)
         ELSE notify_loop(W, i + 1, connected)

notify_all_registered_lights(W, connected) == notify_loop(W, 0, connected)

RECURSIVE send_mesh_pdu_loop(_, _, _, _, _, _)
send_mesh_pdu_loop(W, i, unicast, access_len, wfail, sent) ==
    IF i >= MAX_PROXY_CONNECTIONS THEN [w |-> W, sent |-> sent]
    ELSE IF ~s_proxies[i].active \/ ~s_proxies[i].ready
         THEN send_mesh_pdu_loop(W, i + 1, unicast, access_len, wfail, sent)
    ELSE LET W1 == mesh_crypto_create_standard_pdu(W, access_len, unicast, OUT_MAX)
         IN  IF W1.ret <= 0
             THEN send_mesh_pdu_loop(W1, i + 1, unicast, access_len, wfail, sent)
             ELSE LET r == ble_mesh_write(W1, i, s_proxies[i].data_in_handle, wfail)
                  IN  send_mesh_pdu_loop(r.w, i + 1, unicast, access_len, wfail,
                                         sent \/ r.ok)

\* A send path that builds the PDU before it looks for a ready proxy.
send_mesh_pdu_build_first(W, unicast, access_len, wfail) ==
    LET W1 == mesh_crypto_create_standard_pdu(W, access_len, unicast, OUT_MAX)
        S  == ReadySlots
    IN  IF S = {} \/ W1.ret <= 0
        THEN [w |-> W1, err |-> "ESP_ERR_INVALID_STATE"]
        ELSE LET i == CHOOSE k \in S : \A j \in S : k <= j
                 r == ble_mesh_write(W1, i, s_proxies[i].data_in_handle, wfail)
             IN  [w |-> r.w, err |-> IF r.ok THEN "ESP_OK" ELSE "ESP_ERR_INVALID_STATE"]

\* Returns the world with field err = "ESP_OK" or "ESP_ERR_INVALID_STATE".
send_mesh_pdu(W, unicast, access_len, wfail) ==
    LET r == send_mesh_pdu_loop(W, 0, unicast, access_len, wfail, FALSE)
    IN  [w |-> r.w, err |-> IF r.sent THEN "ESP_OK" ELSE "ESP_ERR_INVALID_STATE"]

\* The access message is built by sidus_protocol.c (always 11 bytes) and
\* handed to send_mesh_pdu.
ble_mesh_send_cct(W, unicast, intensity, cct_kelvin, sleep_mode, wfail) ==
    send_mesh_pdu(W, unicast, ACCESS_LEN, wfail)

ble_mesh_send_hsi(W, unicast, intensity, hue, saturation, cct_kelvin, sleep_mode, wfail) ==
    send_mesh_pdu(W, unicast, ACCESS_LEN, wfail)

ble_mesh_send_sleep(W, unicast, on, wfail) ==
    send_mesh_pdu(W, unicast, ACCESS_LEN, wfail)

ble_mesh_send_effect(W, unicast, effect_type, intensity, wfail) ==
    send_mesh_pdu(W, unicast, ACCESS_LEN, wfail)


-----------------------------------------------------------------------------
(* light_registry.c *)

NoLight == [registered |-> FALSE, unicast |-> 0, connected |-> FALSE,
            active_effect |-> -1]

light_registry_find_by_unicast(L, unicast) ==
    LET S == {i \in LightSlots : L[i].registered /\ L[i].unicast = unicast}
    IN  IF S = {} THEN -1 ELSE CHOOSE i \in S : \A j \in S : i <= j

\* light_registry_add: update in place when the unicast is registered, else
\* the first unregistered slot.
light_registry_add(L, unicast) ==
    LET F == {i \in LightSlots : ~L[i].registered}
    IN  IF light_registry_find_by_unicast(L, unicast) # -1 THEN L
        ELSE IF F = {} THEN L
        ELSE LET i == CHOOSE i \in F : \A j \in F : i <= j
             IN  [L EXCEPT ![i] = [registered |-> TRUE, unicast |-> unicast,
                                   connected |-> FALSE, active_effect |-> -1]]

-----------------------------------------------------------------------------
(* effect_engine.h / effect_engine.c                                       *)
(* Doubles are fixed-point numbers with two decimals: 1.0 is FX.  Delays   *)
(* are in microseconds.                                                    *)

EFFECT_NONE == 0
EFFECT_PAPARAZZI == 1
EFFECT_LIGHTNING == 2
EFFECT_TV_FLICKER == 3
EFFECT_CANDLE == 4
EFFECT_FIRE == 5
EFFECT_STROBE == 6
EFFECT_EXPLOSION == 7
EFFECT_FAULTY_BULB == 8
EFFECT_PULSING == 9
EFFECT_WELDING == 10
EFFECT_PARTY == 13

COLOR_MODE_CCT == 0
COLOR_MODE_HSI == 1

CB_FAULTY_EVENT == 1
CB_FAULTY_FADE == 2
CB_PAPARAZZI_FLASH == 3
CB_PAPARAZZI_OFF == 4
CB_PAPARAZZI_BURST_ON == 5
CB_PAPARAZZI_BURST_OFF == 6
CB_SOFTWARE_STEP == 7
CB_SOFTWARE_STROBE_OFF == 8
CB_SOFTWARE_STROBE_NEXT == 9
CB_SOFTWARE_LIGHTNING_OFF == 10
CB_SOFTWARE_EXPLOSION_GAP == 11
CB_SOFTWARE_WELD_OFF == 12
CB_SOFTWARE_WELD_NEXT == 13
CB_SOFTWARE_PARTY_SWEEP_START == 14
CB_SOFTWARE_PARTY_SWEEP_STEP == 15

FX == 10 * 10
Min(a, b) == IF a <= b THEN a ELSE b
Max(a, b) == IF a >= b THEN a ELSE b
Abs(a) == IF a < 0 THEN 0 - a ELSE a

\* rand_double(lo, hi) with t = 100 * esp_random() / UINT32_MAX
rand_double(lo, hi, t) == lo + (t * (hi - lo)) \div 100

\* rand_int(lo, hi) with x = esp_random()
rand_int(lo, hi, x) == IF lo >= hi THEN lo ELSE lo + (x % (hi - lo + 1))

\* pow(b, n) for a base b given in hundredths and an integer exponent n, in
\* ten-thousandths.
RECURSIVE PowBp(_, _)
PowBp(b, n) ==
    IF n = 0 THEN 10000
    ELSE IF n < 0 THEN (10000 * 10000) \div PowBp(b, 0 - n)
    ELSE (PowBp(b, n - 1) * b) \div 100

\* base_ms * scale * rand_double(lo, hi) seconds, as microseconds; scale is in
\* ten-thousandths, lo and hi in hundredths.
IntervalUs(base_ms, scale, lo, hi, t) ==
    ((base_ms * scale) \div 10000) * rand_double(lo, hi, t) * 10

\* The runtime value of an esp_timer handle together with the context its
\* callback is given.
NoTimer == [handle |-> FALSE, armed |-> FALSE, us |-> 0, tag |-> 0,
            d1 |-> 0, d2 |-> 0, d3 |-> 0, i1 |-> 0, i2 |-> 0]

\* An arm_timer that does not look at the running flag.
arm_timer_unguarded(W, i, delay_us, tag, d1, d2, d3, i1, i2) ==
    [W EXCEPT !.inst[i].timer =
        [handle |-> TRUE, armed |-> TRUE, us |-> IF delay_us < 50 THEN 50 ELSE delay_us,
         tag |-> tag, d1 |-> d1, d2 |-> d2, d3 |-> d3, i1 |-> i1, i2 |-> i2]]

\* An arm_timer that programs the requested delay as it is.
arm_timer_unclamped(W, i, delay_us, tag, d1, d2, d3, i1, i2) ==
    IF ~W.inst[i].running THEN W
    ELSE [W EXCEPT !.inst[i].timer =
             [handle |-> TRUE, armed |-> TRUE, us |-> delay_us, tag |-> tag,
              d1 |-> d1, d2 |-> d2, d3 |-> d3, i1 |-> i1, i2 |-> i2]]

arm_timer(W, i, delay_us, tag, d1, d2, d3, i1, i2) ==
    IF ~W.inst[i].running THEN W
    ELSE IF W.rnd.arm = "alloc_failed" THEN W
    ELSE IF W.rnd.arm = "create_failed"
         THEN \* the previous timer is deleted before esp_timer_create is called
              [W EXCEPT !.inst[i].timer = NoTimer,
                        !.heap.calloc = @ + 1, !.heap.free = @ + 1]
    ELSE IF W.rnd.arm = "start_failed"
         THEN [W EXCEPT !.inst[i].timer = NoTimer,
                        !.heap.calloc = @ + 1, !.heap.free = @ + 1]
    ELSE LET us == IF delay_us < 50 THEN 50 ELSE delay_us
         IN  [W EXCEPT !.heap.calloc = @ + 1,
                       !.inst[i].timer =
                 [handle |-> TRUE, armed |-> TRUE, us |-> us, tag |-> tag,
                  d1 |-> d1, d2 |-> d2, d3 |-> d3, i1 |-> i1, i2 |-> i2]]

\* A call order that creates the new timer before it deletes the previous one.
ArmTimerCallsCreateFirst(handle, running, outcome) ==
    IF ~running \/ outcome = "alloc_failed" THEN << >>
    ELSE (IF outcome = "create_failed" THEN << >> ELSE << "create" >>)
         \o (IF handle THEN << "stop", "delete" >> ELSE << >>)
         \o (IF outcome = "start_failed" THEN << "delete" >>
             ELSE IF outcome = "ok" THEN << "start" >> ELSE << >>)

\* The esp_timer calls one arm_timer makes, in order, on an instance whose
\* timer field is set (handle) or NULL; "create" stands for an
\* esp_timer_create that succeeded.
ArmTimerCalls(handle, running, outcome) ==
    IF ~running \/ outcome = "alloc_failed" THEN << >>
    ELSE (IF handle THEN << "stop", "delete" >> ELSE << >>)
         \o (IF outcome = "create_failed" THEN << >>
             ELSE IF outcome = "start_failed" THEN << "create", "delete" >>
             ELSE << "create", "start" >>)

arm_simple(W, i, delay_us, tag) == arm_timer(W, i, delay_us, tag, 0, 0, 0, 0, 0)

\* The colour-send helpers.  Each records its call of ble_mesh_send_cct or
\* ble_mesh_send_hsi in out; the helpers discard the result of the call and
\* the engine reads nothing the send path writes, so the calls recorded by a
\* handler are carried out, in call order, by TransmitOutputs before the
\* handler's step ends.
send_cct(W, i, intensity, cct, sleep_mode) ==
    [W EXCEPT !.out = Append(@, [fn |-> "cct", unicast |-> W.inst[i].unicast,
                                 intensity |-> intensity, hue |-> 0, sat |-> 0,
                                 cct |-> cct, sleep_mode |-> sleep_mode])]

send_hsi(W, i, intensity, hue, sat, cct, sleep_mode) ==
    [W EXCEPT !.out = Append(@, [fn |-> "hsi", unicast |-> W.inst[i].unicast,
                                 intensity |-> intensity, hue |-> hue, sat |-> sat,
                                 cct |-> cct, sleep_mode |-> sleep_mode])]

\* The calls of ble_mesh_send_cct / ble_mesh_send_hsi recorded in out from
\* position k on.
RECURSIVE TransmitOutputs(_, _)
TransmitOutputs(W, k) ==
    IF k > Len(W.out) THEN W
    ELSE LET o == W.out[k]
             r == IF o.fn = "cct"
                  THEN ble_mesh_send_cct(W, o.unicast, o.intensity, o.cct,
                                         o.sleep_mode, {})
                  ELSE ble_mesh_send_hsi(W, o.unicast, o.intensity, o.hue, o.sat,
                                         o.cct, o.sleep_mode, {})
         IN  TransmitOutputs(r.w, k + 1)

send_color(W, i, intensity, sleep_mode) ==
    LET p == W.inst[i].params
    IN  IF p.color_mode = COLOR_MODE_HSI
        THEN send_hsi(W, i, intensity, p.hue, p.saturation, p.hsi_cct, sleep_mode)
        ELSE send_cct(W, i, intensity, p.cct_kelvin, sleep_mode)

send_color_hue(W, i, intensity, sleep_mode, hue_override) ==
    LET p == W.inst[i].params
    IN  IF p.color_mode = COLOR_MODE_HSI \/ hue_override >= 0
        THEN send_hsi(W, i, intensity,
                      IF hue_override >= 0 THEN hue_override ELSE p.hue,
                      p.saturation, p.hsi_cct, sleep_mode)
        ELSE send_cct(W, i, intensity, p.cct_kelvin, sleep_mode)

(* Faulty bulb *)

\* The condition under which faulty_send computes the warmth dip, a quotient
\* by faulty_max - faulty_min.
DipDivides(p) == p.faulty_warmth > 0 /\ p.faulty_max > p.faulty_min

faulty_send(W, i, percent, sleep_mode) ==
    LET p == W.inst[i].params
        base_cct == IF p.color_mode = COLOR_MODE_HSI THEN p.hsi_cct ELSE p.cct_kelvin
        adjusted_cct ==
            IF DipDivides(p)
            THEN LET dip == Max(0, Min(FX, ((p.faulty_max - percent) * FX)
                                             \div (p.faulty_max - p.faulty_min)))
                     shift == (dip * p.faulty_warmth) \div (100 * FX)
                 IN  base_cct + ((p.faulty_warmest_cct - base_cct) * shift) \div FX
            ELSE base_cct
    IN  IF p.color_mode = COLOR_MODE_HSI
        THEN send_hsi(W, i, percent, p.hue, p.saturation, adjusted_cct, sleep_mode)
        ELSE send_cct(W, i, percent, adjusted_cct, sleep_mode)

\* A table builder that takes the point count as given above 2.
faulty_points_uncapped(p, max_n) ==
    LET lo == Min(p.faulty_min, p.faulty_max)
        hi == Max(p.faulty_min, p.faulty_max)
        n  == IF p.faulty_points < 2 THEN 2 ELSE p.faulty_points
    IN  IF lo = hi THEN << lo >>
        ELSE [k \in 1 .. n |-> lo + ((hi - lo) * (k - 1)) \div (n - 1)]

\* The table of levels, at most max_n of them.
faulty_points(p, max_n) ==
    LET lo == Min(p.faulty_min, p.faulty_max)
        hi == Max(p.faulty_min, p.faulty_max)
        n0 == IF p.faulty_points < 2 THEN 2 ELSE p.faulty_points
        n  == IF n0 > max_n THEN max_n ELSE n0
    IN  IF lo = hi THEN << lo >>
        ELSE [k \in 1 .. n |-> lo + ((hi - lo) * (k - 1)) \div (n - 1)]

faulty_schedule(W, i) ==
    IF ~W.inst[i].running THEN W
    ELSE LET freq == W.inst[i].params.faulty_frequency \div FX
             interval == IF freq >= 10
                         THEN rand_double(80000, 2000000, W.rnd.td)
                         ELSE IntervalUs(1500, PowBp(65, freq - 1), 85, 115, W.rnd.td)
         IN  arm_simple(W, i, interval, CB_FAULTY_EVENT)

faulty_fade(W, i, target, steps, dt) ==
    IF ~W.inst[i].running THEN W
    ELSE IF steps <= 0
    THEN faulty_schedule(
             faulty_send([W EXCEPT !.inst[i].current_intensity = target],
                         i, target, 1), i)
    ELSE LET cur == W.inst[i].current_intensity
             interp == cur + (target - cur) \div steps
             W1 == [W EXCEPT !.inst[i].current_intensity = interp]
         IN  arm_timer(faulty_send(W1, i, interp, 1), i, dt, CB_FAULTY_FADE,
                       target, dt, 0, steps - 1, 0)

\* pow(faulty_bias / 100, 2.5), in hundredths
IntSqrt(x) == CHOOSE r \in 0 .. 100 : r * r <= x /\ (r + 1) * (r + 1) > x
FaultyBias(b) ==
    IF b <= 0 THEN 0
    ELSE LET q == b \div FX IN (q * q * IntSqrt(q) * FX) \div (100 * 100 * 10)

faulty_fire(W, i) ==
    IF ~W.inst[i].running THEN W
    ELSE
    LET inst == W.inst[i]
        p    == inst.params
        pts  == faulty_points(p, 32)
        npts == Len(pts)
        hi   == pts[npts]
        bias == FaultyBias(p.faulty_bias)
        on_high == Abs(inst.current_intensity - hi) < FX \div 2
        lower == SelectSeq(pts, LAMBDA x : x < hi - FX \div 2)
        nlower == Len(lower)
        pick == IF nlower > 0 THEN lower[1 + rand_int(0, nlower - 1, W.rnd.n)] ELSE hi
        ret  == 10 + (90 * (p.faulty_recovery \div FX) * (p.faulty_recovery \div FX))
                        \div (100 * 100)
        lo   == Min(p.faulty_min, p.faulty_max)
        total0 == (p.faulty_transition * 50) \div FX
        total == IF total0 < 1 THEN 1 ELSE total0
        go(target) ==
            IF p.faulty_transition * 1000 < 5 * FX
            THEN LET W1 == [W EXCEPT !.inst[i].current_intensity = target]
                     W2 == IF target <= lo /\ lo < FX
                           THEN faulty_send(W1, i, 0, 0)
                           ELSE faulty_send(W1, i, target, 1)
                 IN  faulty_schedule(W2, i)
            ELSE faulty_fade(W, i, target, total, 20000)
    IN  IF bias <= 0
        THEN IF Abs(inst.current_intensity - hi) > FX \div 2
             THEN faulty_schedule(
                      faulty_send([W EXCEPT !.inst[i].current_intensity = hi],
                                  i, hi, 1), i)
             ELSE faulty_schedule(W, i)
        ELSE IF on_high
        THEN IF rand_double(0, 100, W.rnd.t1) < bias
             THEN go(pick)
             ELSE faulty_schedule(W, i)
        ELSE IF rand_double(0, 100, W.rnd.t1) < ret
             THEN go(hi)
             ELSE go(pick)

(* Paparazzi *)

paparazzi_schedule(W, i) ==
    IF ~W.inst[i].running THEN W
    ELSE LET gap == IntervalUs(3000, PowBp(75, W.inst[i].params.frequency \div FX),
                               50, 150, W.rnd.td)
         IN  arm_simple(W, i, gap, CB_PAPARAZZI_FLASH)

paparazzi_flash(W, i) ==
    IF ~W.inst[i].running THEN W
    ELSE LET inten == Max(W.inst[i].params.intensity, 10 * FX)
             flash_dur == rand_double(30000, 80000, W.rnd.td)
         IN  arm_timer(send_color(W, i, inten, 1), i, flash_dur, CB_PAPARAZZI_OFF,
                       flash_dur, 0, 0, 0, 0)

paparazzi_off(W, i, flash_dur) ==
    IF ~W.inst[i].running THEN W
    ELSE LET W1 == send_color(W, i, 0, 0)
         IN  IF rand_double(0, 100, W.rnd.t1) < 30
             THEN arm_timer(W1, i, rand_double(50000, 150000, W.rnd.td),
                            CB_PAPARAZZI_BURST_ON, flash_dur, 0, 0, 0, 0)
             ELSE paparazzi_schedule(W1, i)

paparazzi_burst_on(W, i, flash_dur) ==
    IF ~W.inst[i].running THEN W
    ELSE LET inten == Max(W.inst[i].params.intensity, 10 * FX)
         IN  arm_timer(send_color(W, i, inten, 1), i, flash_dur,
                       CB_PAPARAZZI_BURST_OFF, 0, 0, 0, 0, 0)

paparazzi_burst_off(W, i) ==
    IF ~W.inst[i].running THEN W
    ELSE paparazzi_schedule(send_color(W, i, 0, 0), i)

(* Software effects *)

\* fmod(hue + party_hue_bias, 360), made non-negative; hues are whole degrees.
biased_hue(W, i, hue) == (hue + W.inst[i].params.party_hue_bias) % 360

sw_schedule(W, i) ==
    IF ~W.inst[i].running THEN W
    ELSE
    LET p == W.inst[i].params
        f == p.frequency \div FX
        t == W.inst[i].type
        td == W.rnd.td
        iv == CASE t = EFFECT_CANDLE     -> IntervalUs(150, PowBp(85, f), 70, 130, td)
                [] t = EFFECT_FIRE       -> IntervalUs(100, PowBp(85, f), 50, 150, td)
                [] t = EFFECT_TV_FLICKER -> IntervalUs(80, PowBp(85, f), 60, 140, td)
                [] t = EFFECT_LIGHTNING  -> IntervalUs(3000, PowBp(75, f), 50, 150, td)
                [] t = EFFECT_PULSING    -> 30000
                [] t = EFFECT_EXPLOSION  -> 40000
                [] t = EFFECT_STROBE     -> (500000 * FX) \div p.strobe_hz
                [] t = EFFECT_PARTY      -> IntervalUs(1500, PowBp(80, f), 100, 100, td)
                [] t = EFFECT_WELDING    -> IntervalUs(1500, PowBp(80, f), 30, 100, td)
                [] OTHER                 -> IntervalUs(120, PowBp(85, f), 70, 130, td)
    IN  arm_simple(W, i, iv, CB_SOFTWARE_STEP)

\* A strobe cycle whose dark time is not held at 10 ms or more.
sw_strobe_no_floor(W, i) ==
    IF ~W.inst[i].running \/ ~W.inst[i].strobe_running THEN W
    ELSE LET p == W.inst[i].params
             flash_us == 10000
             cycle == (1000000 * FX) \div p.strobe_hz
             W1 == send_color(W, i, p.intensity, 1)
             W2 == [W1 EXCEPT !.inst[i].current_intensity = p.intensity]
         IN  arm_timer(W2, i, flash_us, CB_SOFTWARE_STROBE_OFF, cycle - flash_us,
                       0, 0, 0, 0)

sw_strobe(W, i) ==
    IF ~W.inst[i].running \/ ~W.inst[i].strobe_running THEN W
    ELSE LET p == W.inst[i].params
             flash_us == 10000
             cycle == (1000000 * FX) \div p.strobe_hz
             off_dur == Max(10000, cycle - flash_us)
             W1 == send_color(W, i, p.intensity, 1)
             W2 == [W1 EXCEPT !.inst[i].current_intensity = p.intensity]
         IN  arm_timer(W2, i, flash_us, CB_SOFTWARE_STROBE_OFF, off_dur, 0, 0, 0, 0)

\* A burst that goes on striking arcs when none remain.
sw_weld_endless(W, i, remaining) ==
    IF ~W.inst[i].running
    THEN LET W1 == send_color(W, i, 0, 0)
         IN  sw_schedule([W1 EXCEPT !.inst[i].current_intensity = 0], i)
    ELSE LET arc == (W.inst[i].params.intensity * rand_double(70, 100, W.rnd.t1)) \div 100
             W1 == send_color(W, i, arc, 1)
             on_time == rand_double(20000, 80000, W.rnd.td)
         IN  arm_simple([W1 EXCEPT !.inst[i].weld_remaining = remaining], i,
                        on_time, CB_SOFTWARE_WELD_OFF)

sw_weld(W, i, remaining) ==
    IF ~W.inst[i].running \/ remaining <= 0
    THEN LET W1 == send_color(W, i, 0, 0)
         IN  sw_schedule([W1 EXCEPT !.inst[i].current_intensity = 0], i)
    ELSE LET arc == (W.inst[i].params.intensity * rand_double(70, 100, W.rnd.t1)) \div 100
             W1 == send_color(W, i, arc, 1)
             on_time == rand_double(20000, 80000, W.rnd.td)
         IN  arm_simple([W1 EXCEPT !.inst[i].weld_remaining = remaining], i,
                        on_time, CB_SOFTWARE_WELD_OFF)

\* (sin(phase * 2 pi / period) + 1) / 2 in hundredths, by quarter of the
\* period; phase and period are in hundredths of a second.  The shaping
\* exponent of pulsing_shape is left out.
PulseShape(phase, period) ==
    LET q == ((phase % period) * 4) \div period
    IN  CASE q = 0 -> 50 [] q = 1 -> 100 [] q = 2 -> 50 [] OTHER -> 0

\* The levels of the TV flicker, in hundredths.
TvLevels == <<10, 30, 50, 70, 85, 100>>

\* One step with the chosen level t.
sw_level_step(W, i, t) ==
    sw_schedule(send_color([W EXCEPT !.inst[i].current_intensity = t], i, t, 1), i)

sw_fire_pulsing(W, i) ==
    LET p == W.inst[i].params
        lo == Min(p.pulsing_min, p.pulsing_max)
        hi == Max(p.pulsing_min, p.pulsing_max)
        period == Max(1, (4 * PowBp(80, p.frequency \div FX)) \div 100)
        phase == W.inst[i].phase_time + 3
        t == lo + ((hi - lo) * PulseShape(phase, period)) \div 100
        W1 == [W EXCEPT !.inst[i].phase_time = phase % period,
                        !.inst[i].current_intensity = t]
    IN  sw_schedule(IF t < FX THEN send_color(W1, i, 0, 0)
                    ELSE send_color(W1, i, t, 1), i)

sw_fire_explosion(W, i) ==
    LET inst == W.inst[i]
        p == inst.params
    IN  IF inst.current_intensity < 5 * FX /\ inst.phase_time = 0
        THEN LET W1 == [W EXCEPT !.inst[i].current_intensity = p.intensity]
                 W2 == send_color(W1, i, p.intensity, 1)
             IN  sw_schedule([W2 EXCEPT !.inst[i].phase_time = FX], i)
        ELSE IF inst.phase_time > 0
        THEN LET cur == (inst.current_intensity * 88) \div 100
                 W1 == [W EXCEPT !.inst[i].current_intensity = cur]
             IN  IF cur < 2 * FX
                 THEN LET W2 == send_color(W1, i, 0, 0)
                          W3 == [W2 EXCEPT !.inst[i].current_intensity = 0,
                                           !.inst[i].phase_time = 0]
                          gap == IntervalUs(2000, PowBp(80, p.frequency \div FX),
                                            50, 150, W.rnd.td)
                      IN  arm_simple(W3, i, gap, CB_SOFTWARE_STEP)
                 ELSE sw_schedule(send_color(W1, i, cur, 1), i)
        ELSE sw_schedule([W EXCEPT !.inst[i].phase_time = 0], i)

\* party_colors[k] of a parameter record: the entries past the ones supplied
\* are zero.
PartyColor(p, k) == IF k < Len(p.party_colors) THEN p.party_colors[k + 1] ELSE 0

\* A party step that returns at once when there are no colours.
sw_fire_party_returns(W, i) ==
    LET inst == W.inst[i]
        p == inst.params
    IN  IF p.party_color_count <= 0 THEN W
        ELSE
        LET cur_hue == biased_hue(W, i, PartyColor(p, inst.party_color_index))
            next_idx == (inst.party_color_index + 1) % p.party_color_count
            W1 == [W EXCEPT !.inst[i].party_color_index = next_idx]
        IN  sw_schedule(send_color_hue(W1, i, p.intensity, 1, cur_hue), i)

sw_fire_party(W, i) ==
    LET inst == W.inst[i]
        p == inst.params
    IN  IF p.party_color_count <= 0 THEN sw_schedule(W, i)
        ELSE
        LET cur_hue == biased_hue(W, i, PartyColor(p, inst.party_color_index))
            next_idx == (inst.party_color_index + 1) % p.party_color_count
            W1 == [W EXCEPT !.inst[i].party_color_index = next_idx]
            W2 == send_color_hue(W1, i, p.intensity, 1, cur_hue)
        IN  IF p.party_transition <= 0 \/ p.party_color_count < 2
            THEN sw_schedule(W2, i)
            ELSE LET total_iv == IntervalUs(1500, PowBp(80, p.frequency \div FX),
                                            100, 100, 0)
                     tfrac == p.party_transition \div FX
                     hold  == (total_iv * (100 - tfrac)) \div 100
                     sweep == (total_iv * tfrac) \div 100
                     next_hue == biased_hue(W, i, PartyColor(p, next_idx))
                 IN  arm_timer(W2, i, hold, CB_SOFTWARE_PARTY_SWEEP_START,
                               cur_hue, next_hue, sweep, 0, 0)

sw_fire(W, i) ==
    IF ~W.inst[i].running THEN W
    ELSE
    LET inst == W.inst[i]
        p == inst.params
        t == inst.type
    IN  CASE t = EFFECT_CANDLE ->
               sw_level_step(W, i, (p.intensity * rand_double(60, 100, W.rnd.t1)) \div 100)
          [] t = EFFECT_FIRE ->
               sw_level_step(W, i,
                   IF rand_double(0, 100, W.rnd.t1) < 15 THEN p.intensity
                   ELSE (p.intensity * rand_double(15, 85, W.rnd.t2)) \div 100)
          [] t = EFFECT_TV_FLICKER ->
               sw_level_step(W, i,
                   (p.intensity * TvLevels[1 + rand_int(0, 5, W.rnd.n)]) \div 100)
          [] t = EFFECT_LIGHTNING ->
               arm_simple(send_color(W, i, p.intensity, 1), i,
                          rand_double(40000, 120000, W.rnd.td),
                          CB_SOFTWARE_LIGHTNING_OFF)
          [] t = EFFECT_PULSING -> sw_fire_pulsing(W, i)
          [] t = EFFECT_EXPLOSION -> sw_fire_explosion(W, i)
          [] t = EFFECT_STROBE -> sw_strobe(W, i)
          [] t = EFFECT_PARTY -> sw_fire_party(W, i)
          [] t = EFFECT_WELDING -> sw_weld(W, i, rand_int(2, 5, W.rnd.n))
          [] OTHER ->
               sw_level_step(W, i, (p.intensity * rand_double(30, 100, W.rnd.t1)) \div 100)

sw_sweep_step(W, i, start_hue, delta, step, total_steps, dt) ==
    IF ~W.inst[i].running THEN W
    ELSE IF step > total_steps THEN sw_fire(W, i)
    ELSE LET h0 == start_hue + (delta * step) \div total_steps
             h1 == IF h0 < 0 THEN h0 + 360 ELSE h0
             hue == IF h1 >= 360 THEN h1 - 360 ELSE h1
             W1 == send_color_hue(W, i, W.inst[i].params.intensity, 1, hue)
         IN  arm_timer(W1, i, dt, CB_SOFTWARE_PARTY_SWEEP_STEP,
                       start_hue, delta, dt, step + 1, total_steps)

sw_sweep_start(W, i, start_hue, end_hue, duration) ==
    IF ~W.inst[i].running THEN W
    ELSE IF duration <= 30000 THEN sw_fire(W, i)
    ELSE LET dt == 30000
             total0 == duration \div dt
             total == IF total0 < 1 THEN 1 ELSE total0
             d0 == end_hue - start_hue
             d1 == IF d0 > 180 THEN d0 - 360 ELSE d0
             delta == IF d1 < -180 THEN d1 + 360 ELSE d1
         IN  sw_sweep_step(W, i, start_hue, delta, 1, total, dt)

(* timer_dispatch: ctx is the context the expired timer was created with. *)
(* DispatchTag is its switch over the callback tag.                        *)

DispatchTag(W, ctx) ==
    LET i == ctx.inst
        tag == ctx.tag
    IN       CASE tag = CB_FAULTY_EVENT -> faulty_fire(W, i)
               [] tag = CB_FAULTY_FADE -> faulty_fade(W, i, ctx.d1, ctx.i1, ctx.d2)
               [] tag = CB_PAPARAZZI_FLASH -> paparazzi_flash(W, i)
               [] tag = CB_PAPARAZZI_OFF -> paparazzi_off(W, i, ctx.d1)
               [] tag = CB_PAPARAZZI_BURST_ON -> paparazzi_burst_on(W, i, ctx.d1)
               [] tag = CB_PAPARAZZI_BURST_OFF -> paparazzi_burst_off(W, i)
               [] tag = CB_SOFTWARE_STEP -> sw_fire(W, i)
               [] tag = CB_SOFTWARE_STROBE_OFF ->
                    IF ~W.inst[i].strobe_running THEN W
                    ELSE LET W1 == send_color(W, i, 0, 0)
                         IN  arm_simple([W1 EXCEPT !.inst[i].current_intensity = 0],
                                        i, ctx.d1, CB_SOFTWARE_STROBE_NEXT)
               [] tag = CB_SOFTWARE_STROBE_NEXT -> sw_strobe(W, i)
               [] tag = CB_SOFTWARE_LIGHTNING_OFF ->
                    LET W1 == send_color(W, i, 0, 0)
                    IN  sw_schedule([W1 EXCEPT !.inst[i].current_intensity = 0], i)
               [] tag = CB_SOFTWARE_EXPLOSION_GAP -> sw_fire(W, i)
               [] tag = CB_SOFTWARE_WELD_OFF ->
                    LET W1 == send_color(W, i, 0, 0)
                        off_time == rand_double(10000, 40000, W.rnd.td)
                        remaining == W.inst[i].weld_remaining - 1
                    IN  arm_timer([W1 EXCEPT !.inst[i].weld_remaining = remaining],
                                  i, off_time, CB_SOFTWARE_WELD_NEXT,
                                  0, 0, 0, remaining, 0)
               [] tag = CB_SOFTWARE_WELD_NEXT -> sw_weld(W, i, ctx.i1)
               [] tag = CB_SOFTWARE_PARTY_SWEEP_START ->
                    sw_sweep_start(W, i, ctx.d1, ctx.d2, ctx.d3)
               [] tag = CB_SOFTWARE_PARTY_SWEEP_STEP ->
                    sw_sweep_step(W, i, ctx.d1, ctx.d2, ctx.i1, ctx.i2, ctx.d3)
               [] OTHER -> W

\* A dispatcher that does not look at the running flag.
timer_dispatch_unconditional(W, ctx) == DispatchTag(W, ctx)

\* ctx is freed on both paths before the tag is looked at.
timer_dispatch(W, ctx) ==
    LET W0 == [W EXCEPT !.heap.free = @ + 1]
    IN  IF ~W.inst[ctx.inst].running THEN W0 ELSE DispatchTag(W0, ctx)

(* Public API *)

\* effect_params_t ep = {0}, and a pool slot after memset
ZeroParams ==
    [color_mode |-> COLOR_MODE_CCT, intensity |-> 0, cct_kelvin |-> 0, hue |-> 0,
     saturation |-> 0, hsi_cct |-> 0, frequency |-> 0,
     pulsing_min |-> 0, pulsing_max |-> 0, pulsing_shape |-> 0, strobe_hz |-> 0,
     faulty_min |-> 0, faulty_max |-> 0, faulty_bias |-> 0, faulty_recovery |-> 0,
     faulty_warmth |-> 0, faulty_warmest_cct |-> 0, faulty_points |-> 0,
     faulty_transition |-> 0, faulty_frequency |-> 0,
     party_colors |-> << >>, party_color_count |-> 0, party_transition |-> 0,
     party_hue_bias |-> 0]

NoInstance == [unicast |-> 0, type |-> EFFECT_NONE, params |-> ZeroParams,
               current_intensity |-> 0, phase_time |-> 0,
               strobe_running |-> FALSE, party_color_index |-> 0,
               weld_remaining |-> 0, timer |-> NoTimer, running |-> FALSE]

\* The first pool slot that runs an effect for unicast, or -1.
RunningSlot(W, unicast) ==
    LET S == {i \in LightSlots : W.inst[i].running /\ W.inst[i].unicast = unicast}
    IN  IF S = {} THEN -1 ELSE CHOOSE i \in S : \A j \in S : i <= j

effect_engine_stop(W, unicast) ==
    LET i == RunningSlot(W, unicast)
        l == light_registry_find_by_unicast(W.lights, unicast)
    IN  IF i = -1 THEN W
        ELSE LET W1 == [W EXCEPT !.inst[i].running = FALSE,
                                 !.inst[i].strobe_running = FALSE,
                                 !.inst[i].timer = NoTimer]
             IN  IF l = -1 THEN W1
                 ELSE [W1 EXCEPT !.lights[l].active_effect = -1]

\* effect_engine_start once slot i is chosen: the slot is set to `cleared`
\* (the result of memset), filled in and linked, and the type's first step
\* runs.
StartSlot(W1, i, cleared, unicast, type, params) ==
        LET l == light_registry_find_by_unicast(W1.lights, unicast)
            W2 == [W1 EXCEPT !.inst[i] =
                      [cleared EXCEPT !.unicast = unicast, !.type = type,
                                         !.params = params,
                                         !.current_intensity = params.intensity,
                                         !.phase_time = 0,
                                         !.running = TRUE]]
            W3 == IF l = -1 THEN W2 ELSE [W2 EXCEPT !.lights[l].active_effect = i]
        IN  CASE type = EFFECT_FAULTY_BULB -> faulty_fire(W3, i)
              [] type = EFFECT_PAPARAZZI -> paparazzi_schedule(W3, i)
              [] type = EFFECT_STROBE ->
                   LET W4 == send_color(W3, i, 0, 0)
                   IN  arm_simple([W4 EXCEPT !.inst[i].strobe_running = TRUE],
                                  i, 50000, CB_SOFTWARE_STROBE_NEXT)
              [] OTHER -> sw_fire(W3, i)

\* A slot search that falls back on slot 0 when every slot is running.
FreeSlotOrFirst(W) ==
    LET F == {i \in LightSlots : ~W.inst[i].running}
    IN  IF F = {} THEN 0 ELSE CHOOSE k \in F : \A j \in F : k <= j

\* The slot effect_engine_start takes: the first one that is not running, or -1.
FreeSlot(W) ==
    LET F == {i \in LightSlots : ~W.inst[i].running}
    IN  IF F = {} THEN -1 ELSE CHOOSE k \in F : \A j \in F : k <= j

StartBody(W1, unicast, type, params) ==
    IF FreeSlot(W1) = -1 THEN W1
    ELSE StartSlot(W1, FreeSlot(W1), NoInstance, unicast, type, params)

\* A start that fills the slot in without clearing it first.
effect_engine_start_no_memset(W, unicast, type, params) ==
    LET W1 == effect_engine_stop(W, unicast)
    IN  IF FreeSlot(W1) = -1 THEN W1
        ELSE StartSlot(W1, FreeSlot(W1), W1.inst[FreeSlot(W1)], unicast, type, params)

\* A start that does not stop the effect already running on the light.
effect_engine_start_without_stop(W, unicast, type, params) ==
    StartBody(W, unicast, type, params)

effect_engine_start(W, unicast, type, params) ==
    StartBody(effect_engine_stop(W, unicast), unicast, type, params)

\* An update that also restarts the intensity from the new parameters.
effect_engine_update_restarts(W, unicast, params) ==
    LET i == RunningSlot(W, unicast)
    IN  IF i = -1 THEN W
        ELSE [W EXCEPT !.inst[i].params = params,
                       !.inst[i].current_intensity = params.intensity + 1]

effect_engine_update(W, unicast, params) ==
    LET i == RunningSlot(W, unicast)
    IN  IF i = -1 THEN W
        ELSE LET W1 == [W EXCEPT !.inst[i].params = params]
             IN  IF W.inst[i].party_color_index >= params.party_color_count
                    /\ params.party_color_count > 0
                 THEN [W1 EXCEPT !.inst[i].party_color_index = 0]
                 ELSE W1

RECURSIVE stop_all_loop(_, _)
stop_all_loop(W, i) ==
    IF i >= MAX_LIGHTS THEN W
    ELSE IF W.inst[i].running
         THEN stop_all_loop(effect_engine_stop(W, W.inst[i].unicast), i + 1)
         ELSE stop_all_loop(W, i + 1)

\* A stop-all that stops the first running effect only.
effect_engine_stop_all_first_only(W) ==
    LET S == {i \in LightSlots : W.inst[i].running}
    IN  IF S = {} THEN W
        ELSE effect_engine_stop(W, W.inst[CHOOSE i \in S : \A j \in S : i <= j].unicast)

effect_engine_stop_all(W) == stop_all_loop(W, 0)

-----------------------------------------------------------------------------
(* Committing a handler's result *)

Last(op, u) == [op |-> op, u |-> u, seq0 |-> s_sequence_number,
                n0 |-> Len(pdu_log), rets |-> << >>, err |-> "none",
                note |-> << >>]

Commit(W, op, u, err) ==
    /\ Len(W.log) <= MaxPdus
    /\ s_sequence_number' = W.seq
    /\ pdu_log' = W.log
    /\ events' = W.ev
    /\ outputs' = W.out
    /\ lights' = W.lights
    /\ s_instances' = W.inst
    /\ last' = [Last(op, u) EXCEPT !.rets = W.rets, !.err = err, !.note = W.note]

-----------------------------------------------------------------------------
(* mesh_crypto.c: mesh_crypto_init.  It assigns the keys, the IV index, the *)
(* source address, the k2/k4 material and s_initialized; it never assigns   *)
(* s_sequence_number.                                                       *)

\* An initialisation that keeps the NID derived from the previous network key.
mesh_crypto_init_stale_nid(network_key, app_key, iv_index, src_address) ==
    LET d == mesh_crypto_k2(network_key, <<0>>)
    IN  /\ s_network_key' = network_key
        /\ s_app_key' = app_key
        /\ s_iv_index' = iv_index
        /\ s_src_address' = src_address
        /\ s_nid' = s_nid
        /\ s_encryption_key' = d.enc
        /\ s_privacy_key' = d.priv
        /\ s_aid' = mesh_crypto_k4(app_key)
        /\ s_initialized' = TRUE
        /\ UNCHANGED s_sequence_number

mesh_crypto_init(network_key, app_key, iv_index, src_address) ==
    LET d == mesh_crypto_k2(network_key, <<0>>)
    IN  /\ s_network_key' = network_key
        /\ s_app_key' = app_key
        /\ s_iv_index' = iv_index
        /\ s_src_address' = src_address
        /\ s_nid' = d.nid
        /\ s_encryption_key' = d.enc
        /\ s_privacy_key' = d.priv
        /\ s_aid' = mesh_crypto_k4(app_key)
        /\ s_initialized' = TRUE
        /\ UNCHANGED s_sequence_number

-----------------------------------------------------------------------------
(* ws_server.c: the command handlers of the send path.  `missing` says that *)
(* a required JSON field is absent; wfail is the set of ready proxy slots   *)
(* on which the GATT write reports an error.                                *)

handle_set_keys(ks) ==
    /\ IF ks.nk = ABSENT \/ ks.ak = ABSENT \/ ks.iv = ABSENT
       THEN /\ UNCHANGED <<cryptoVars, s_sequence_number>>
            /\ last' = [Last("set_keys", 0) EXCEPT !.note = ks]
       ELSE /\ mesh_crypto_init(ks.nk, ks.ak, ks.iv,
                                IF ks.src = ABSENT THEN 1 ELSE ks.src)
            /\ last' = [Last("set_keys", 0) EXCEPT !.err = "applied", !.note = ks]
    /\ events' = << >>
    /\ outputs' = << >>
    /\ UNCHANGED <<bleVars, lights, engineVars, pdu_log, taskVars>>

SendCommand(op, u, missing, r) ==
    /\ IF missing THEN Commit(World, op, 0, "none") ELSE Commit(r.w, op, u, r.err)
    /\ UNCHANGED <<cryptoVars, bleVars, inflight, stopped, taskVars>>

handle_set_cct(u, missing, wfail) ==
    SendCommand("set_cct", u, missing, ble_mesh_send_cct(World, u, 0, 0, 1, wfail))

handle_set_hsi(u, missing, wfail) ==
    SendCommand("set_hsi", u, missing, ble_mesh_send_hsi(World, u, 0, 0, 0, 0, 1, wfail))

handle_sleep(u, missing, wfail) ==
    SendCommand("sleep", u, missing, ble_mesh_send_sleep(World, u, TRUE, wfail))

handle_set_effect(u, missing, wfail) ==
    SendCommand("set_effect", u, missing, ble_mesh_send_effect(World, u, 0, 0, wfail))

handle_add_light(u) ==
    /\ lights' = light_registry_add(lights, u)
    /\ last' = Last("add_light", u)
    /\ events' = << >>
    /\ outputs' = << >>
    /\ UNCHANGED <<cryptoVars, s_sequence_number, bleVars, engineVars, pdu_log, taskVars>>

-----------------------------------------------------------------------------
(* ble_mesh.c: public connection API and the GAP / GATTC event handlers *)

ble_mesh_connect_proxy ==
    /\ LET W == IF ble_mesh_is_proxy_connected(s_proxies)
                THEN notify_all_registered_lights(World, TRUE) ELSE World
       IN  Commit(W, "link", 0, "none")
    /\ s_scanning' = IF s_scanning THEN TRUE
                     ELSE IF s_proxy_count >= MAX_PROXY_CONNECTIONS THEN FALSE
                     ELSE TRUE
    /\ UNCHANGED <<cryptoVars, s_proxies, s_proxy_count, inflight, stopped, taskVars>>

\* ESP_GAP_BLE_SCAN_RESULT_EVT / ESP_GAP_SEARCH_INQ_RES_EVT for an advertiser
\* that carries the mesh proxy service.
GapScanResult(addr) ==
    /\ s_scanning
    /\ find_proxy_by_addr(addr) = -1
    /\ LET slot == alloc_proxy_slot
       IN  IF slot = -1
           THEN /\ s_scanning' = FALSE
                /\ UNCHANGED <<s_proxies, s_proxy_count>>
           ELSE /\ s_proxies' = [s_proxies EXCEPT ![slot] =
                        [active |-> TRUE, ready |-> FALSE, ble_addr |-> addr,
                         conn_id |-> NO_CONN_ID, data_in_handle |-> INVALID_HANDLE]]
                /\ s_proxy_count' = s_proxy_count + 1
                /\ UNCHANGED s_scanning
    /\ Commit(World, "link", 0, "none")
    /\ UNCHANGED <<cryptoVars, inflight, stopped, taskVars>>

\* ESP_GAP_SEARCH_INQ_CMPL_EVT
GapScanComplete ==
    /\ s_scanning
    /\ s_scanning' = FALSE
    /\ Commit(World, "link", 0, "none")
    /\ UNCHANGED <<cryptoVars, s_proxies, s_proxy_count, inflight, stopped, taskVars>>

\* The Bluetooth stack numbers a new connection with the lowest conn_id that
\* no open connection has.
FreeConnId ==
    LET used == {s_proxies[i].conn_id : i \in {j \in ProxySlots : s_proxies[j].active}}
        free == ConnIds \ used
    IN  IF free = {} THEN NO_CONN_ID ELSE CHOOSE c \in free : \A d \in free : c <= d

\* ESP_GATTC_OPEN_EVT for a connection opened by GapScanResult.
GattcOpenEvt(addr, ok, conn_id) ==
    /\ LET p == find_proxy_by_addr(addr)
       IN  /\ p # -1
           /\ s_proxies[p].conn_id = NO_CONN_ID
           /\ conn_id = FreeConnId
           /\ IF ~ok
              THEN /\ s_proxies' = [s_proxies EXCEPT ![p].active = FALSE]
                   /\ s_proxy_count' = s_proxy_count - 1
              ELSE /\ s_proxies' = [s_proxies EXCEPT ![p].conn_id = conn_id]
                   /\ UNCHANGED s_proxy_count
    /\ Commit(World, "link", 0, "none")
    /\ UNCHANGED <<cryptoVars, s_scanning, inflight, stopped, taskVars>>

\* ESP_GATTC_SEARCH_CMPL_EVT: `found` says the 2ADD characteristic was found.
GattcSearchCmplEvt(conn_id, found) ==
    /\ LET p == find_proxy_by_conn_id(conn_id)
       IN  /\ p # -1
           /\ ~s_proxies[p].ready
           /\ IF ~found
              THEN /\ UNCHANGED s_proxies
                   /\ Commit(World, "link", 0, "none")
              ELSE LET P1 == [s_proxies EXCEPT ![p].data_in_handle = 42,
                                               ![p].ready = TRUE]
                       W1 == send_proxy_filter_setup(World, p, P1)
                       W2 == notify_all_registered_lights(W1, TRUE)
                   IN  /\ s_proxies' = P1
                       /\ Commit(W2, "proxy_ready", p, "none")
    /\ UNCHANGED <<cryptoVars, s_proxy_count, s_scanning, inflight, stopped, taskVars>>

\* ESP_GATTC_CLOSE_EVT / ESP_GATTC_DISCONNECT_EVT
GattcDisconnectEvt(conn_id) ==
    /\ LET p == find_proxy_by_conn_id(conn_id)
       IN  /\ p # -1
           /\ LET P1 == [s_proxies EXCEPT ![p] =
                            [@ EXCEPT !.active = FALSE, !.ready = FALSE,
                                      !.conn_id = NO_CONN_ID,
                                      !.data_in_handle = INVALID_HANDLE]]
                  W1 == IF ~ble_mesh_is_proxy_connected(P1)
                        THEN notify_all_registered_lights(World, FALSE) ELSE World
              IN  /\ s_proxies' = P1
                  /\ s_proxy_count' = s_proxy_count - 1
                  /\ Commit(W1, "link", 0, "none")
    /\ UNCHANGED <<cryptoVars, s_scanning, inflight, stopped, taskVars>>

-----------------------------------------------------------------------------
(* Initial states *)

InitCommon ==
    /\ s_proxies = [i \in ProxySlots |-> NoProxy]
    /\ s_proxy_count = 0
    /\ s_scanning = FALSE
    /\ inflight = {}
    /\ stopped = [u \in Unicasts |-> FALSE]
    /\ outputs = << >>
    /\ events = << >>
    /\ pc = [t \in {} |-> 0]
    /\ reg = [t \in {} |-> 0]
    /\ tseq = [t \in {} |-> 0]

\* The state after app_main: nothing initialised, the counter at its
\* initialiser.
InitBoot ==
    /\ InitCommon
    /\ s_network_key = 0 /\ s_app_key = 0 /\ s_iv_index = 0 /\ s_src_address = 0
    /\ s_encryption_key = 0 /\ s_privacy_key = 0 /\ s_nid = 0 /\ s_aid = 0
    /\ s_initialized = FALSE
    /\ s_sequence_number = U32(0, SEQ_INITIAL)
    /\ s_instances = [i \in LightSlots |-> NoInstance]
    /\ pdu_log = << >>
    /\ lights = [i \in LightSlots |-> NoLight]
    /\ last = Last("boot", 0)

\* A bridge that has been running for a long time: set_keys was handled once
\* after boot and 2^24 PDUs have been built since under that context.  Of
\* those PDUs the log keeps the first one only; all proxies have since
\* disconnected.
LongRunKeys == [nk |-> 1, ak |-> 2, iv |-> 1, src |-> 1]
LongRunCtx  == [iv_index |-> LongRunKeys.iv, src |-> LongRunKeys.src,
                nid |-> mesh_crypto_k2(LongRunKeys.nk, <<0>>).nid,
                aid |-> mesh_crypto_k4(LongRunKeys.ak),
                enc |-> mesh_crypto_k2(LongRunKeys.nk, <<0>>).enc]
FirstPdu == LET W0 == [seq |-> U32(0, SEQ_INITIAL), log |-> << >>, ret |-> 0, rets |-> << >>]
                W1 == StandardPduBody(W0, LongRunCtx, ACCESS_LEN, 256, OUT_MAX)
            IN  [W1.log[1] EXCEPT !.px = 0, !.old = TRUE]

InitLongRun ==
    /\ InitCommon
    /\ s_network_key = LongRunKeys.nk /\ s_app_key = LongRunKeys.ak
    /\ s_iv_index = LongRunKeys.iv /\ s_src_address = LongRunKeys.src
    /\ s_encryption_key = mesh_crypto_k2(LongRunKeys.nk, <<0>>).enc
    /\ s_privacy_key = mesh_crypto_k2(LongRunKeys.nk, <<0>>).priv
    /\ s_nid = LongRunCtx.nid /\ s_aid = LongRunCtx.aid
    /\ s_initialized = TRUE
    /\ s_sequence_number = U32(1, SEQ_INITIAL)
    /\ s_instances = [i \in LightSlots |-> NoInstance]
    /\ pdu_log = << FirstPdu >>
    /\ lights = [i \in LightSlots |-> NoLight]
    /\ last = Last("boot", 0)

\* The same bridge later still: the counter has reached 0xFFFFFFFF.
InitNearWrap ==
    /\ InitCommon
    /\ s_network_key = LongRunKeys.nk /\ s_app_key = LongRunKeys.ak
    /\ s_iv_index = LongRunKeys.iv /\ s_src_address = LongRunKeys.src
    /\ s_encryption_key = LongRunCtx.enc
    /\ s_privacy_key = mesh_crypto_k2(LongRunKeys.nk, <<0>>).priv
    /\ s_nid = LongRunCtx.nid /\ s_aid = LongRunCtx.aid
    /\ s_initialized = TRUE
    /\ s_sequence_number = U32(255, SEQ24 - 1)
    /\ s_instances = [i \in LightSlots |-> NoInstance]
    /\ pdu_log = << FirstPdu >>
    /\ lights = [i \in LightSlots |-> NoLight]
    /\ last = Last("boot", 0)

Init == InitBoot \/ InitLongRun \/ InitNearWrap

-----------------------------------------------------------------------------
(* The send path: controller commands and link events, each run to         *)
(* completion.                                                             *)

SetKeys == \E ks \in KeySets : handle_set_keys(ks)
SetCct == \E u \in Unicasts, m \in BOOLEAN, wfail \in SUBSET ReadySlots :
              handle_set_cct(u, m, wfail)
SetHsi == \E u \in Unicasts, m \in BOOLEAN, wfail \in SUBSET ReadySlots :
              handle_set_hsi(u, m, wfail)
Sleep == \E u \in Unicasts, m \in BOOLEAN, wfail \in SUBSET ReadySlots :
              handle_sleep(u, m, wfail)
SetEffect == \E u \in Unicasts, m \in BOOLEAN, wfail \in SUBSET ReadySlots :
              handle_set_effect(u, m, wfail)
AddLight == \E u \in Unicasts : handle_add_light(u)
ConnectProxy == ble_mesh_connect_proxy
ScanResult == \E a \in ProxyAddrs : GapScanResult(a)
ScanComplete == GapScanComplete
GattcOpen == \E a \in ProxyAddrs, ok \in BOOLEAN, c \in ConnIds : GattcOpenEvt(a, ok, c)
GattcSearchCmpl == \E c \in ConnIds, f \in BOOLEAN : GattcSearchCmplEvt(c, f)
GattcDisconnect == \E c \in ConnIds : GattcDisconnectEvt(c)

Next ==
    \/ SetKeys \/ SetCct \/ SetHsi \/ Sleep \/ SetEffect
    \/ ConnectProxy \/ ScanResult \/ ScanComplete
    \/ GattcOpen \/ GattcSearchCmpl \/ GattcDisconnect

Spec == Init /\ [][Next]_vars

-----------------------------------------------------------------------------
(* The effect engine: API calls and timer callbacks, each run to           *)
(* completion.  A timer that expires is first taken off the timer list by  *)
(* the timer task (TimerExpire) and its callback runs afterwards           *)
(* (TimerCallback); esp_timer_stop and esp_timer_delete do not recall a    *)
(* callback already taken.                                                 *)

\* Parameter records as effect_params_from_json leaves them.
DefaultParams ==
    [ZeroParams EXCEPT !.intensity = 100 * FX, !.cct_kelvin = 5600,
                       !.saturation = 100, !.hsi_cct = 5600,
                       !.frequency = 8 * FX, !.pulsing_max = 100 * FX,
                       !.pulsing_shape = 50 * FX, !.strobe_hz = 4 * FX,
                       !.party_colors = <<0, 60, 120, 180, 240, 300>>,
                       !.party_color_count = 6]

DimHsiParams ==
    [DefaultParams EXCEPT !.color_mode = COLOR_MODE_HSI, !.intensity = 4 * FX,
                          !.hue = 200, !.frequency = 15 * FX,
                          !.party_colors = <<0, 240>>, !.party_color_count = 2,
                          !.party_transition = 50 * FX]

\* params with "partyColors": [] : no colours at all.
NoColorsParams ==
    [DefaultParams EXCEPT !.party_colors = << >>, !.party_color_count = 0]

\* The parameters a controller sends with start_effect and with update_effect.
StartParamSets == {DefaultParams}
UpdateParamSets == {DimHsiParams}

\* The effect types started in the engine specification.
EngineTypes == {EFFECT_LIGHTNING, EFFECT_STROBE}

\* The draws explored in the engine specification.
EngineDraws == [t1 : {0}, t2 : {50}, n : {0}, td : {50}, arm : {"ok"}]

CtxOf(i) == [inst |-> i, tag |-> s_instances[i].timer.tag,
             d1 |-> s_instances[i].timer.d1, d2 |-> s_instances[i].timer.d2,
             d3 |-> s_instances[i].timer.d3, i1 |-> s_instances[i].timer.i1,
             i2 |-> s_instances[i].timer.i2]

\* The slots that run an effect, as a handler finds them.
RunningSlots == {i \in LightSlots : s_instances[i].running}

\* The registry entries linked to an effect instance.
LinkedLights == {l \in LightSlots : lights[l].active_effect # -1}

\* An effect of another type runs on unicast u.
RunsOtherType(u, t) ==
    RunningSlot(World, u) # -1 /\ s_instances[RunningSlot(World, u)].type # t

\* The slot a start for u will take holds runtime state of an earlier effect
\* in the fields that only the memset clears.
TakesUsedSlot(u) ==
    LET W1 == effect_engine_stop(World, u)
        i  == FreeSlot(W1)
    IN  i # -1 /\ (W1.inst[i].party_color_index # 0 \/ W1.inst[i].weld_remaining # 0)

StartEffect(u, t, p, r) ==
    /\ LET W == effect_engine_start([World EXCEPT !.rnd = r], u, t, p)
       IN  Commit([TransmitOutputs(W, 1) EXCEPT
                      !.note = <<t, RunsOtherType(u, t), p, r, TakesUsedSlot(u)>>],
                  "start", u, "none")
    /\ stopped' = [stopped EXCEPT ![u] = FALSE]
    /\ UNCHANGED <<cryptoVars, bleVars, inflight, taskVars>>

\* party_color_index of the instance running for u, or -1 when none runs.
IndexBefore(u) ==
    IF RunningSlot(World, u) = -1 THEN -1
    ELSE s_instances[RunningSlot(World, u)].party_color_index

UpdateEffect(u, p) ==
    /\ Commit([TransmitOutputs(effect_engine_update(World, u, p), 1) EXCEPT
                  !.note = <<IndexBefore(u)>>], "update", u, "none")
    /\ UNCHANGED <<cryptoVars, bleVars, inflight, stopped, taskVars>>

StopEffect(u) ==
    /\ Commit(effect_engine_stop(World, u), "stop", 0, "none")
    /\ stopped' = [stopped EXCEPT ![u] = TRUE]
    /\ UNCHANGED <<cryptoVars, bleVars, inflight, taskVars>>

StopAllEffects ==
    /\ Commit([effect_engine_stop_all(World) EXCEPT
                  !.note = <<RunningSlots, LinkedLights>>], "stop_all", 0, "none")
    /\ stopped' = [u \in Unicasts |-> stopped[u] \/ RunningSlot(World, u) # -1]
    /\ UNCHANGED <<cryptoVars, bleVars, inflight, taskVars>>

\* The one-shot timer of slot i expires: the timer task takes it off the list.
TimerExpires(i) ==
    /\ s_instances[i].timer.armed
    /\ Cardinality(inflight) < MaxInflight
    /\ inflight' = inflight \cup {CtxOf(i)}
    /\ Commit([World EXCEPT !.inst[i].timer.armed = FALSE], "expire", 0, "none")
    /\ UNCHANGED <<cryptoVars, bleVars, stopped, taskVars>>

\* The timer task runs the callback of a timer it has taken.
RunCallback(c, r) ==
    /\ c \in inflight
    /\ inflight' = inflight \ {c}
    /\ LET W == timer_dispatch([World EXCEPT !.rnd = r], c)
       IN  Commit([TransmitOutputs(W, 1) EXCEPT !.note = <<s_instances[c.inst].running>>],
                  "timer", s_instances[c.inst].unicast, "none")
    /\ UNCHANGED <<cryptoVars, bleVars, stopped, taskVars>>

\* The state after app_main and an add_light command for the first unicast.
InitEngine ==
    /\ InitCommon
    /\ s_network_key = 0 /\ s_app_key = 0 /\ s_iv_index = 0 /\ s_src_address = 0
    /\ s_encryption_key = 0 /\ s_privacy_key = 0 /\ s_nid = 0 /\ s_aid = 0
    /\ s_initialized = FALSE
    /\ s_sequence_number = U32(0, SEQ_INITIAL)
    /\ s_instances = [i \in LightSlots |-> NoInstance]
    /\ pdu_log = << >>
    /\ lights = light_registry_add([i \in LightSlots |-> NoLight], 256)
    /\ last = Last("boot", 0)

EngineStart == \E u \in Unicasts, t \in EngineTypes, p \in StartParamSets, r \in EngineDraws :
                   StartEffect(u, t, p, r)
EngineUpdate == \E u \in Unicasts, p \in UpdateParamSets : UpdateEffect(u, p)
EngineStop == \E u \in Unicasts : StopEffect(u)
EngineStopAll == StopAllEffects
TimerExpire == \E i \in LightSlots : TimerExpires(i)
TimerCallback == \E c \in inflight, r \in EngineDraws : RunCallback(c, r)

NextEngine ==
    \/ EngineStart \/ EngineUpdate \/ EngineStop \/ EngineStopAll
    \/ TimerExpire \/ TimerCallback

SpecEngine == InitEngine /\ [][NextEngine]_vars

-----------------------------------------------------------------------------
(* The engine with every effect type, on one light: the same slot is taken *)
(* again and again by effects of different types.                          *)

EffectTypes == {EFFECT_PAPARAZZI, EFFECT_LIGHTNING, EFFECT_TV_FLICKER, EFFECT_CANDLE,
                EFFECT_FIRE, EFFECT_STROBE, EFFECT_EXPLOSION, EFFECT_FAULTY_BULB,
                EFFECT_PULSING, EFFECT_WELDING, EFFECT_PARTY}
EffectUnicasts == {256}
EffectDraws == [t1 : {0}, t2 : {50}, n : {0, 3}, td : {50}, arm : {"ok"}]

EffectStart == \E u \in EffectUnicasts, t \in EffectTypes, p \in StartParamSets,
                  r \in EffectDraws : StartEffect(u, t, p, r)
EffectUpdateParamSets == {DimHsiParams, NoColorsParams}
EffectUpdate == \E u \in EffectUnicasts, p \in EffectUpdateParamSets : UpdateEffect(u, p)
EffectStop == \E u \in EffectUnicasts : StopEffect(u)
EffectTimerCallback == \E c \in inflight, r \in EffectDraws : RunCallback(c, r)

NextEffects ==
    \/ EffectStart \/ EffectUpdate \/ EffectStop \/ TimerExpire \/ EffectTimerCallback

SpecEffects == InitEngine /\ [][NextEffects]_vars

-----------------------------------------------------------------------------
(* Two tasks inside mesh_crypto_create_standard_pdu at the same time, one  *)
(* statement at a time: the timer task (an effect callback, through        *)
(* send_cct and send_mesh_pdu) and the server task (a controller command). *)
(* Nothing in mesh_crypto.c or ble_mesh.c locks the counter.  The          *)
(* statement s_sequence_number++ is a load, an add and a store; the value  *)
(* of seq = s_sequence_number is either read back from memory or taken     *)
(* from the register that holds the incremented value.                     *)

Tasks == {"timer", "server"}

ConcCall(t) ==
    /\ pc[t].at = "idle"
    /\ pc[t].n < MaxConcPdus
    /\ s_initialized
    /\ pc' = [pc EXCEPT ![t].at = "load"]
    /\ UNCHANGED <<cryptoVars, s_sequence_number, bleVars, lights, engineVars,
                   pdu_log, outputs, events, last, reg, tseq>>

ConcLoad(t) ==
    /\ pc[t].at = "load"
    /\ reg' = [reg EXCEPT ![t] = s_sequence_number]
    /\ pc' = [pc EXCEPT ![t].at = "store"]
    /\ UNCHANGED <<cryptoVars, s_sequence_number, bleVars, lights, engineVars,
                   pdu_log, outputs, events, last, tseq>>

ConcStore(t) ==
    /\ pc[t].at = "store"
    /\ s_sequence_number' = NextSeq(reg[t])
    /\ pc' = [pc EXCEPT ![t].at = "read"]
    /\ UNCHANGED <<cryptoVars, bleVars, lights, engineVars,
                   pdu_log, outputs, events, last, reg, tseq>>

ConcRead(t, reread) ==
    /\ pc[t].at = "read"
    /\ tseq' = [tseq EXCEPT ![t] = IF reread THEN s_sequence_number
                                   ELSE NextSeq(reg[t])]
    /\ pc' = [pc EXCEPT ![t].at = "build"]
    /\ UNCHANGED <<cryptoVars, s_sequence_number, bleVars, lights, engineVars,
                   pdu_log, outputs, events, last, reg>>

ConcBuild(t) ==
    /\ pc[t].at = "build"
    /\ LET W0 == [World EXCEPT !.seq = tseq[t]]
           W1 == StandardPduWith(W0, Ctx, tseq[t], ACCESS_LEN, 256, OUT_MAX)
       IN  pdu_log' = GattcWriteChar(W1, 0).log
    /\ pc' = [pc EXCEPT ![t] = [at |-> "idle", n |-> @.n + 1]]
    /\ UNCHANGED <<cryptoVars, s_sequence_number, bleVars, lights, engineVars,
                   outputs, events, last, reg, tseq>>

\* Keys set, one proxy ready in slot 0, no PDU built yet.
InitConc ==
    /\ s_proxies = [i \in ProxySlots |->
                      IF i = 0 THEN [active |-> TRUE, ready |-> TRUE, ble_addr |-> 1,
                                     conn_id |-> 1, data_in_handle |-> 42]
                      ELSE NoProxy]
    /\ s_proxy_count = 1
    /\ s_scanning = FALSE
    /\ inflight = {}
    /\ stopped = [u \in Unicasts |-> FALSE]
    /\ outputs = << >>
    /\ events = << >>
    /\ s_network_key = LongRunKeys.nk /\ s_app_key = LongRunKeys.ak
    /\ s_iv_index = LongRunKeys.iv /\ s_src_address = LongRunKeys.src
    /\ s_encryption_key = LongRunCtx.enc
    /\ s_privacy_key = mesh_crypto_k2(LongRunKeys.nk, <<0>>).priv
    /\ s_nid = LongRunCtx.nid /\ s_aid = LongRunCtx.aid
    /\ s_initialized = TRUE
    /\ s_sequence_number = U32(0, SEQ_INITIAL)
    /\ s_instances = [i \in LightSlots |-> NoInstance]
    /\ pdu_log = << >>
    /\ lights = [i \in LightSlots |-> NoLight]
    /\ last = Last("boot", 0)
    /\ pc = [t \in Tasks |-> [at |-> "idle", n |-> 0]]
    /\ reg = [t \in Tasks |-> U32(0, 0)]
    /\ tseq = [t \in Tasks |-> U32(0, 0)]

TaskCall == \E t \in Tasks : ConcCall(t)
TaskLoad == \E t \in Tasks : ConcLoad(t)
TaskStore == \E t \in Tasks : ConcStore(t)
TaskRead == \E t \in Tasks, reread \in BOOLEAN : ConcRead(t, reread)
TaskBuild == \E t \in Tasks : ConcBuild(t)

NextConc == TaskCall \/ TaskLoad \/ TaskStore \/ TaskRead \/ TaskBuild

SpecConc == InitConc /\ [][NextConc]_vars

-----------------------------------------------------------------------------
(* Properties of the send path (checked under Spec) *)

SendOps == {"set_cct", "set_hsi", "sleep", "set_effect"}
LogIdx == 1 .. Len(pdu_log)
\* The last handler was a single-output command with all its fields present.
SendHandled == last.op \in SendOps /\ last.err # "none"
\* The PDUs the last handler built.
NewIdx == (last.n0 + 1) .. Len(pdu_log)
HasError == \E k \in 1 .. Len(events) : events[k].event = "error"

\* C3: the sequence value used by each successful call of
\* mesh_crypto_create_standard_pdu or mesh_crypto_create_proxy_filter_setup is
\* strictly greater than the value used by every earlier successful call of
\* either function.
C3_SeqStrictlyIncreasing ==
    \A i, j \in LogIdx : i < j => SeqLess(pdu_log[i].seq, pdu_log[j].seq)

\* The counter has wrapped: a PDU was built with a value below an earlier one.
C3_WrapReached ==
    \E i, j \in LogIdx : /\ i < j
                         /\ pdu_log[j].seq = U32(0, 0)
                         /\ pdu_log[i].seq = U32(0, SEQ_INITIAL + 1)

\* C4: the 24-bit SEQ carried in a PDU differs from the SEQ carried in every
\* PDU built earlier under the same security context.
C4_SeqBytesNeverReused ==
    \A i, j \in LogIdx :
        (i < j /\ pdu_log[i].ctx = pdu_log[j].ctx) => pdu_log[i].SEQ # pdu_log[j].SEQ

\* Two PDUs of one security context carry the same three SEQ bytes, in nonces
\* and header alike.
C4_SeqBytesReused ==
    \E i, j \in LogIdx : /\ i < j
                         /\ pdu_log[i].ctx = pdu_log[j].ctx
                         /\ pdu_log[i].SEQ = pdu_log[j].SEQ
                         /\ pdu_log[i].seq_ok /\ pdu_log[j].seq_ok
                         /\ pdu_log[i].seq # pdu_log[j].seq

\* C6: before the first set_keys both builders return 0 and leave the counter
\* unchanged, and no PDU is built or written to a proxy connection by a send
\* command or by the proxy-ready handshake.
C6_UninitialisedBuildsNothing ==
    ~s_initialized =>
        /\ pdu_log = << >>
        /\ s_sequence_number = U32(0, SEQ_INITIAL)
        /\ \A k \in 1 .. Len(last.rets) : last.rets[k] = 0

C6_Witness ==
    /\ ~s_initialized
    /\ last.op = "set_cct"
    /\ Cardinality(ReadySlots) = 2
    /\ last.rets = <<0, 0>>

\* C7: a single-output command handled while no proxy link is ready leaves
\* the sequence counter as it was: no builder is called and no PDU is built.
C7_NoReadyProxyKeepsSeq ==
    (last.op \in SendOps /\ ReadySlots = {}) =>
        /\ s_sequence_number = last.seq0
        /\ Len(pdu_log) = last.n0
        /\ last.rets = << >>

C7_Witness ==
    /\ last.op = "set_hsi"
    /\ last.err = "ESP_ERR_INVALID_STATE"
    /\ s_initialized
    /\ ReadySlots = {}
    /\ \E i \in ProxySlots : s_proxies[i].active

\* C8: when a single-output command is dropped because no proxy link is ready
\* or because the crypto context is not initialised, an error event is
\* published to the controller.
C8_DropPublishesError ==
    (SendHandled /\ (ReadySlots = {} \/ ~s_initialized)) => HasError

\* A set_cct command was dropped for want of a ready proxy link and the
\* handler published nothing.
C8_DropWithoutError ==
    /\ last.op = "set_cct"
    /\ last.err = "ESP_ERR_INVALID_STATE"
    /\ ReadySlots = {}
    /\ events = << >>

C10_InitResetsCounter ==
    (last.op = "set_keys" /\ last.err = "applied") =>
        s_sequence_number = U32(0, SEQ_INITIAL)

\* C10: every mesh_crypto_init recomputes NID, encryption key, privacy key and
\* AID from the supplied keys and leaves the sequence counter as it was.
C10_InitRecomputesKeepsCounter ==
    (last.op = "set_keys" /\ last.err = "applied") =>
        /\ s_initialized
        /\ \E ks \in KeySets : s_network_key = ks.nk /\ s_app_key = ks.ak
                               /\ s_iv_index = ks.iv
        /\ s_nid = mesh_crypto_k2(s_network_key, <<0>>).nid
        /\ s_encryption_key = mesh_crypto_k2(s_network_key, <<0>>).enc
        /\ s_privacy_key = mesh_crypto_k2(s_network_key, <<0>>).priv
        /\ s_aid = mesh_crypto_k4(s_app_key)
        /\ s_sequence_number = last.seq0

\* A re-initialisation after a PDU was built since boot.
C10_Witness ==
    /\ last.op = "set_keys" /\ last.err = "applied"
    /\ Len(pdu_log) >= 1 /\ ~pdu_log[1].old
    /\ s_sequence_number = U32(0, SEQ_INITIAL + 1)

-----------------------------------------------------------------------------
(* Properties of the effect engine (checked under SpecEngine) *)

RunningFor(u) == {i \in LightSlots : s_instances[i].running /\ s_instances[i].unicast = u}

\* C1: the pool holds at most one running slot for any unicast, and a start
\* leaves exactly one running instance for its unicast, of the type started.
C1_OneRunningPerUnicast ==
    /\ \A i, j \in LightSlots :
          (s_instances[i].running /\ s_instances[j].running
           /\ s_instances[i].unicast = s_instances[j].unicast) => i = j
    /\ last.op = "start" =>
          /\ Cardinality(RunningFor(last.u)) = 1
          /\ \A i \in RunningFor(last.u) : s_instances[i].type = last.note[1]

\* A start on a unicast that was running an effect of another type, while the
\* other unicast runs an effect too.
C1_Witness ==
    /\ last.op = "start"
    /\ last.note[2]
    /\ Cardinality(RunningFor(last.u)) = 1
    /\ \A u \in Unicasts : RunningFor(u) # {}

\* C2: once effect_engine_stop(u) has returned and until effect_engine_start(u)
\* is called, no handler emits a colour output for u, no instance of u runs or
\* has an armed timer, and a callback that finds running = false emits nothing.
C2_NoOutputAfterStop ==
    /\ \A k \in 1 .. Len(outputs) : ~stopped[outputs[k].unicast]
    /\ \A u \in Unicasts : stopped[u] =>
          \A i \in LightSlots : s_instances[i].unicast = u =>
              ~s_instances[i].running /\ ~s_instances[i].timer.armed
    /\ (last.op = "timer" /\ last.note = << FALSE >>) => outputs = << >>

\* A callback taken before the stop ran after it and found running = false.
C2_Witness ==
    /\ last.op = "timer"
    /\ last.note = << FALSE >>
    /\ stopped[last.u]
    /\ outputs = << >>

-----------------------------------------------------------------------------
(* Property of concurrent PDU construction (checked under SpecConc) *)

\* C5: two PDU constructions that run concurrently get distinct sequence
\* values.
C5_ConcurrentSeqDistinct ==
    \A i, j \in LogIdx : i # j => pdu_log[i].seq # pdu_log[j].seq

\* Both tasks have built a PDU and the two PDUs carry the same sequence value.
C5_DuplicateReached ==
    /\ pc["timer"].n >= 1 /\ pc["server"].n >= 1
    /\ \E i, j \in LogIdx : i # j /\ pdu_log[i].seq = pdu_log[j].seq

-----------------------------------------------------------------------------
(* Properties of the effect types (checked under SpecEffects) *)

\* A pool in which slot 0 holds a newly allocated instance: all runtime state
\* zero, current_intensity = params.intensity, no timer.
FreshWorld(u, t, p, r) ==
    [World EXCEPT !.rnd = r, !.out = << >>,
                  !.inst = [k \in LightSlots |->
                              IF k = 0
                              THEN [NoInstance EXCEPT !.unicast = u, !.type = t,
                                                      !.params = p,
                                                      !.current_intensity = p.intensity,
                                                      !.running = TRUE]
                              ELSE NoInstance]]

\* The step function of a type other than Paparazzi and Strobe, run once.
FirstStep(W, t) == IF t = EFFECT_FAULTY_BULB THEN faulty_fire(W, 0) ELSE sw_fire(W, 0)

\* C11: effect_engine_start leaves an instance that does not depend on the
\* slot's previous occupant and has performed the type's first action:
\* Paparazzi emits nothing and arms its gap timer on otherwise fresh state;
\* Strobe emits one zero-intensity output, sets strobe_running and arms the
\* first flash after 50 ms on otherwise fresh state; every other type is the
\* result of its step function run once on a fresh instance.
C11_StartIsFresh ==
    last.op = "start" =>
        LET t == last.note[1]
            p == last.note[3]
            r == last.note[4]
            i == RunningSlot(World, last.u)
            fresh == FreshWorld(last.u, t, p, r)
        IN  /\ i # -1
            /\ s_instances[i].type = t /\ s_instances[i].params = p
            /\ t = EFFECT_PAPARAZZI =>
                  /\ outputs = << >>
                  /\ s_instances[i] =
                        [fresh.inst[0] EXCEPT !.timer = s_instances[i].timer]
                  /\ s_instances[i].timer.armed
                  /\ s_instances[i].timer.tag = CB_PAPARAZZI_FLASH
            /\ t = EFFECT_STROBE =>
                  /\ Len(outputs) = 1 /\ outputs[1].intensity = 0
                  /\ outputs[1].unicast = last.u
                  /\ s_instances[i] =
                        [fresh.inst[0] EXCEPT !.strobe_running = TRUE,
                                              !.timer = s_instances[i].timer]
                  /\ s_instances[i].timer.armed
                  /\ s_instances[i].timer.us = 50000
                  /\ s_instances[i].timer.tag = CB_SOFTWARE_STROBE_NEXT
            /\ t \notin {EFFECT_PAPARAZZI, EFFECT_STROBE} =>
                  /\ s_instances[i] = FirstStep(fresh, t).inst[0]
                  /\ outputs = FirstStep(fresh, t).out

\* A Party effect was started in a slot that held runtime state of an earlier
\* effect.
C11_Witness ==
    /\ last.op = "start"
    /\ last.note[1] = EFFECT_PARTY
    /\ last.note[5]
    /\ s_instances[0].running /\ s_instances[0].type = EFFECT_PARTY

\* An update step for the unicast recorded in last' changed, in the pool, only
\* the parameter record and party_color_index of the instance that ran for it
\* (nothing when none ran), and nothing outside the pool.
UpdateKeepsRuntime ==
    LET i == RunningSlot(World, last'.u)
    IN  /\ lights' = lights /\ inflight' = inflight /\ stopped' = stopped
        /\ outputs' = << >> /\ pdu_log' = pdu_log
        /\ s_sequence_number' = s_sequence_number
        /\ \A k \in LightSlots : k # i => s_instances'[k] = s_instances[k]
        /\ i # -1 =>
              s_instances'[i] =
                 [s_instances[i] EXCEPT !.params = s_instances'[i].params,
                                        !.party_color_index =
                                            s_instances'[i].party_color_index]

\* C12 as stated: a party_color_index >= the new party_color_count is brought
\* back inside [0, party_color_count), any other is unchanged.
C12_UpdateClampsIntoRange ==
    [][last'.op = "update" =>
          /\ UpdateKeepsRuntime
          /\ LET i == RunningSlot(World, last'.u)
             IN  i # -1 =>
                   LET a == s_instances[i]
                       b == s_instances'[i]
                   IN  IF a.party_color_index >= b.params.party_color_count
                       THEN b.party_color_index \in 0 .. (b.params.party_color_count - 1)
                       ELSE b.party_color_index = a.party_color_index]_vars

\* C12: effect_engine_update replaces only the parameter record of the running
\* instance; party_color_index is set to 0 when it is >= the new
\* party_color_count and that count is positive, and is unchanged otherwise
\* (also when the new count is 0); with no running instance nothing changes.
C12_UpdateFrame ==
    [][last'.op = "update" =>
          /\ UpdateKeepsRuntime
          /\ LET i == RunningSlot(World, last'.u)
             IN  i # -1 =>
                   LET a == s_instances[i]
                       b == s_instances'[i]
                   IN  /\ b.params \in EffectUpdateParamSets
                       /\ IF a.party_color_index >= b.params.party_color_count
                             /\ b.params.party_color_count > 0
                          THEN b.party_color_index = 0
                          ELSE b.party_color_index = a.party_color_index]_vars

\* An update brought a party_color_index of 2 or more back to 0, on a Party
\* effect whose timer is armed.
C12_Witness ==
    /\ last.op = "update"
    /\ last.note[1] >= 2
    /\ \E i \in LightSlots :
          /\ s_instances[i].running /\ s_instances[i].unicast = last.u
          /\ s_instances[i].type = EFFECT_PARTY
          /\ s_instances[i].params = DimHsiParams
          /\ s_instances[i].party_color_index = 0
          /\ s_instances[i].timer.armed


-----------------------------------------------------------------------------
(* ws_server.c: the effect and disconnect commands, and the specification   *)
(* of the command dispatcher with one proxy connection ready.               *)

\* ble_mesh_disconnect(conn_id) is declared for ws_server.c but the source
\* tree holds no definition of it; the link it closes reports back through
\* ESP_GATTC_DISCONNECT_EVT, so the call itself changes nothing here.
ble_mesh_disconnect(W, conn_id) == W

\* The engine names handle_start_effect maps to an effect type; any other
\* name is logged and the command ends.
EngineNames ==
    [pulsing |-> EFFECT_PULSING, strobe |-> EFFECT_STROBE, fire |-> EFFECT_FIRE,
     candle |-> EFFECT_CANDLE, lightning |-> EFFECT_LIGHTNING,
     tv |-> EFFECT_TV_FLICKER, party |-> EFFECT_PARTY,
     explosion |-> EFFECT_EXPLOSION, welding |-> EFFECT_WELDING,
     faulty_bulb |-> EFFECT_FAULTY_BULB, paparazzi |-> EFFECT_PAPARAZZI]

handle_start_effect(u, engine, p, r) ==
    /\ IF engine \notin DOMAIN EngineNames
       THEN /\ Commit([World EXCEPT !.note = <<RunningSlots>>],
                      "start_effect", u, "unknown_engine")
            /\ UNCHANGED stopped
       ELSE LET W1 == effect_engine_stop([World EXCEPT !.rnd = r], u)
                W2 == effect_engine_start(W1, u, EngineNames[engine], p)
            IN  /\ Commit([TransmitOutputs(W2, 1) EXCEPT !.note = <<RunningSlots>>],
                          "start_effect", u, "none")
                /\ stopped' = [x \in DOMAIN stopped |-> IF x = u THEN FALSE ELSE stopped[x]]
    /\ UNCHANGED <<cryptoVars, bleVars, inflight, taskVars>>

handle_disconnect(u) ==
    /\ LET l == light_registry_find_by_unicast(lights, u)
       IN  IF l = -1 \/ ~lights[l].connected
           THEN /\ Commit([World EXCEPT !.note = <<RunningSlots>>],
                          "disconnect", u, "ignored")
                /\ UNCHANGED stopped
           ELSE LET W1 == effect_engine_stop(World, u)
                    W2 == ble_mesh_disconnect(W1, 0)
                    W3 == [W2 EXCEPT !.lights[l].connected = FALSE]
                    W4 == ws_server_notify_light_status(W3, u, FALSE)
                IN  /\ Commit([W4 EXCEPT !.note = <<RunningSlots>>],
                              "disconnect", u, "none")
                    /\ stopped' = [x \in DOMAIN stopped |->
                                      IF x = u THEN TRUE ELSE stopped[x]]
    /\ UNCHANGED <<cryptoVars, bleVars, inflight, taskVars>>

\* handle_stop_all: every effect is stopped, then every registered and
\* connected light is disconnected and reported.
RECURSIVE DisconnectLights(_, _)
DisconnectLights(W, k) ==
    IF k = MAX_LIGHTS THEN W
    ELSE IF W.lights[k].registered /\ W.lights[k].connected
         THEN DisconnectLights(
                  ws_server_notify_light_status(
                      [ble_mesh_disconnect(W, 0) EXCEPT !.lights[k].connected = FALSE],
                      W.lights[k].unicast, FALSE), k + 1)
         ELSE DisconnectLights(W, k + 1)

handle_stop_all ==
    /\ Commit([DisconnectLights(effect_engine_stop_all(World), 0) EXCEPT
                  !.note = <<RunningSlots, LinkedLights>>], "stop_all", 0, "none")
    /\ stopped' = [u \in DOMAIN stopped |-> stopped[u] \/ RunningSlot(World, u) # -1]
    /\ UNCHANGED <<cryptoVars, bleVars, inflight, taskVars>>

\* The engine state before any effect is started.
EmptyPool == [seq |-> U32(0, SEQ_INITIAL), log |-> << >>, ret |-> 0, rets |-> << >>,
              ev |-> << >>, out |-> << >>,
              lights |-> [i \in LightSlots |-> NoLight],
              inst |-> [i \in LightSlots |-> NoInstance],
              rnd |-> NoDraw, heap |-> NoHeapCalls, note |-> << >>]

\* The pool after MAX_LIGHTS start_effect commands for distinct unicasts.
RECURSIVE FillPool(_, _)
FillPool(W, k) ==
    IF k = MAX_LIGHTS THEN W
    ELSE FillPool(effect_engine_start(W, 512 + k, EFFECT_STROBE, DefaultParams), k + 1)

FullPool == FillPool(EmptyPool, 0).inst

\* Keys set and one proxy ready; the pool is empty, or full after nine
\* start_effect commands.
InitDispatch ==
    /\ s_scanning = FALSE
    /\ inflight = {}
    /\ stopped = [u \in Unicasts |-> FALSE]
    /\ outputs = << >>
    /\ events = << >>
    /\ pc = [t \in {} |-> 0]
    /\ reg = [t \in {} |-> 0]
    /\ tseq = [t \in {} |-> 0]
    /\ s_proxies = [i \in ProxySlots |->
                      IF i = 0 THEN [active |-> TRUE, ready |-> TRUE, ble_addr |-> 1,
                                     conn_id |-> 1, data_in_handle |-> 42]
                      ELSE NoProxy]
    /\ s_proxy_count = 1
    /\ s_network_key = LongRunKeys.nk /\ s_app_key = LongRunKeys.ak
    /\ s_iv_index = LongRunKeys.iv /\ s_src_address = LongRunKeys.src
    /\ s_encryption_key = LongRunCtx.enc
    /\ s_privacy_key = mesh_crypto_k2(LongRunKeys.nk, <<0>>).priv
    /\ s_nid = LongRunCtx.nid /\ s_aid = LongRunCtx.aid
    /\ s_initialized = TRUE
    /\ s_sequence_number = U32(0, SEQ_INITIAL)
    /\ s_instances \in {[i \in LightSlots |-> NoInstance], FullPool}
    /\ pdu_log = << >>
    /\ lights = [i \in LightSlots |-> NoLight]
    /\ last = Last("boot", 0)

DispatchEngines == {"strobe", "paparazzi", "disco"}
DispatchUnicasts == {256}
DispatchAddLight == \E u \in DispatchUnicasts : handle_add_light(u)
DispatchSetCct == \E u \in DispatchUnicasts : handle_set_cct(u, FALSE, {})
DispatchSetHsi == \E u \in DispatchUnicasts : handle_set_hsi(u, FALSE, {})
DispatchSleep == \E u \in DispatchUnicasts : handle_sleep(u, FALSE, {})
DispatchSetEffect == \E u \in DispatchUnicasts : handle_set_effect(u, FALSE, {})
DispatchStartEffect == \E u \in DispatchUnicasts, e \in DispatchEngines :
                           handle_start_effect(u, e, DefaultParams, NoDraw)
DispatchDisconnect == \E u \in DispatchUnicasts : handle_disconnect(u)
DispatchStopAll == handle_stop_all

NextDispatch ==
    \/ DispatchAddLight \/ ConnectProxy \/ GattcDisconnect
    \/ DispatchSetCct \/ DispatchSetHsi \/ DispatchSleep \/ DispatchSetEffect
    \/ DispatchStartEffect \/ DispatchDisconnect \/ DispatchStopAll

SpecDispatch == InitDispatch /\ [][NextDispatch]_vars

-----------------------------------------------------------------------------
(* Properties of the command dispatcher (checked under SpecDispatch) *)

\* C13: after a disconnect command for unicast u has been handled, no effect
\* instance runs for u, whatever the registry and connection state of u was.
C13_DisconnectStopsEffect ==
    last.op = "disconnect" => RunningFor(last.u) = {}

\* A disconnect command was handled for a unicast with a running effect and
\* the effect still runs.
C13_EffectSurvivesDisconnect ==
    /\ last.op = "disconnect"
    /\ last.err = "ignored"
    /\ RunningFor(last.u) # {}
    /\ RunningFor(last.u) \subseteq last.note[1]


-----------------------------------------------------------------------------
(* Properties of stop-all and of the timers (checked under SpecEngine) *)

\* C14: after effect_engine_stop_all every pool slot has running = FALSE and
\* no timer, and every registered light's active_effect is cleared.
C14_StopAllClearsEverything ==
    last.op = "stop_all" =>
        /\ \A i \in LightSlots : /\ ~s_instances[i].running
                                 /\ s_instances[i].timer = NoTimer
        /\ \A l \in LightSlots : lights[l].registered => lights[l].active_effect = -1

\* A stop-all handled while two effects were running, one of them linked to
\* its registered light.
C14_Witness ==
    /\ last.op = "stop_all"
    /\ Cardinality(last.note[1]) = 2
    /\ last.note[2] # {}


-----------------------------------------------------------------------------
(* The timer specification: arm_timer applied to a running and to a stopped *)
(* slot with every outcome of the allocation and of the esp_timer calls.    *)

\* The requested delays, in microseconds after the conversion to int64_t.
Delays == {0 - 2000000, 0, 49, 50, 51}

\* calloc, esp_timer_create and esp_timer_start_once either succeed or fail.
ArmOutcomes == {"ok", "alloc_failed", "create_failed", "start_failed"}

\* Slot 0 runs a paparazzi effect for 0x0100; slot 1 ran a strobe for 0x0101
\* that has been stopped.
TimerPool ==
    effect_engine_stop(
        effect_engine_start(
            effect_engine_start(EmptyPool, 256, EFFECT_PAPARAZZI, DefaultParams),
            257, EFFECT_STROBE, DefaultParams),
        257).inst

TimerSlots == {0, 1}

InitTimer ==
    /\ InitCommon
    /\ s_network_key = 0 /\ s_app_key = 0 /\ s_iv_index = 0 /\ s_src_address = 0
    /\ s_encryption_key = 0 /\ s_privacy_key = 0 /\ s_nid = 0 /\ s_aid = 0
    /\ s_initialized = FALSE
    /\ s_sequence_number = U32(0, SEQ_INITIAL)
    /\ s_instances = TimerPool
    /\ pdu_log = << >>
    /\ lights = [i \in LightSlots |-> NoLight]
    /\ last = Last("boot", 0)

\* One call of arm_timer on slot i; the note keeps the requested delay and
\* the slot as the call found it.
ArmTimer(i, d, tag, o) ==
    /\ Commit([arm_timer([World EXCEPT !.rnd.arm = o], i, d, tag, 0, 0, 0, 0, 0)
                   EXCEPT !.note = <<d, s_instances[i].running, o,
                                     s_instances[i].timer.handle,
                                     ArmTimerCalls(s_instances[i].timer.handle,
                                                   s_instances[i].running, o)>>],
              "arm", i, "none")
    /\ UNCHANGED <<cryptoVars, bleVars, inflight, stopped, taskVars>>

TimerArm == \E i \in TimerSlots, d \in Delays, o \in ArmOutcomes :
                ArmTimer(i, d, CB_PAPARAZZI_FLASH, o)
TimerStart == \E u \in Unicasts : StartEffect(u, EFFECT_PAPARAZZI, DefaultParams, NoDraw)
TimerStop == \E u \in Unicasts : StopEffect(u)
TimerRun == \E c \in inflight, r \in EngineDraws : RunCallback(c, r)

NextTimer == TimerArm \/ TimerStart \/ TimerStop \/ TimerExpire \/ TimerRun

SpecTimer == InitTimer /\ [][NextTimer]_vars

\* C15: a slot with running = FALSE has no timer; arm_timer on such a slot
\* creates none, whatever the delay and the outcome of the calls; a timer
\* callback that finds running = FALSE emits nothing and changes no slot.
C15_StoppedSlotHasNoTimer ==
    /\ [](\A i \in LightSlots : ~s_instances[i].running =>
            /\ s_instances[i].timer = NoTimer
            /\ \A d \in Delays, o \in ArmOutcomes :
                  arm_timer([World EXCEPT !.rnd.arm = o], i, d, CB_SOFTWARE_STEP,
                            0, 0, 0, 0, 0).inst = s_instances)
    /\ [][(last'.op = "timer" /\ ~last'.note[1]) =>
              /\ s_instances' = s_instances
              /\ outputs' = << >>
              /\ pdu_log' = pdu_log]_vars

\* A timer callback ran after the effect of its slot had been stopped.
C15_Witness ==
    /\ last.op = "timer"
    /\ ~last.note[1]
    /\ \E i \in TimerSlots : ~s_instances[i].running /\ s_instances[i].unicast = last.u

\* C18: when arm_timer programs a timer, the programmed delay is the larger of
\* the requested delay and 50 microseconds.
C18_DelayClamped ==
    (last.op = "arm" /\ last.note[2] /\ last.note[3] = "ok") =>
        LET d == last.note[1]
            t == s_instances[last.u].timer
        IN  /\ t.armed
            /\ t.us = IF d > 50 THEN d ELSE 50
            /\ t.us >= 50

\* arm_timer programmed a timer for a negative, a zero or a sub-50 request.
C18_Witness ==
    /\ last.op = "arm" /\ last.note[2] /\ last.note[3] = "ok"
    /\ last.note[1] < 0
    /\ s_instances[last.u].timer.us = 50


-----------------------------------------------------------------------------
(* sidus_protocol.c: the 10-byte bit-packed payloads and the 11-byte access *)
(* messages.  A real intensity_pct is carried in hundredths of a percent.   *)

Pow2(n) == IF n = 0 THEN 1 ELSE 2 ^ n

\* (value >> i) & 1 on a two's-complement int
BitOf(value, i) == (value % Pow2(i + 1)) \div Pow2(i)

\* The segment is written MSB-first at the end of bits and then reversed in
\* place, so it ends up LSB-first.
\* A packer that writes every field as a whole byte.
append_segment_byte(bits, value, width) ==
    bits \o [k \in 1 .. 8 |-> BitOf(value, k - 1)]

append_segment(bits, value, width) ==
    LET msb == [k \in 1 .. width |-> BitOf(value, width - k)]
        rev == [k \in 1 .. width |-> msb[width + 1 - k]]
    IN  bits \o rev

RECURSIVE SumBytes(_, _)
SumBytes(out, k) == IF k > Len(out) THEN 0 ELSE out[k] + SumBytes(out, k + 1)

\* bits[] is zeroed by memset before the segments are written.
BitAt(bits, k) == IF k <= Len(bits) THEN bits[k] ELSE 0

ByteOfBits(bits, i) ==
    BitAt(bits, i * 8 + 1) + 2 * BitAt(bits, i * 8 + 2) + 4 * BitAt(bits, i * 8 + 3)
    + 8 * BitAt(bits, i * 8 + 4) + 16 * BitAt(bits, i * 8 + 5)
    + 32 * BitAt(bits, i * 8 + 6) + 64 * BitAt(bits, i * 8 + 7)
    + 128 * BitAt(bits, i * 8 + 8)

\* A conversion that keeps byte 0 as packed.
bits_to_10bytes_no_checksum(bits) == [i \in 1 .. 10 |-> ByteOfBits(bits, i - 1)]

bits_to_10bytes(bits) ==
    LET out == [i \in 1 .. 10 |-> ByteOfBits(bits, i - 1)]
        checksum == SumBytes(out, 2) % 256
    IN  [out EXCEPT ![1] = checksum]

\* round(x / 10.0) for an integer x: halves go away from zero
RoundDiv10(x) == IF x >= 0 THEN (x + 5) \div 10 ELSE 0 - ((5 - x) \div 10)

compute_gm(gm_flag, gm) ==
    IF gm_flag = 0 THEN [gm_high |-> 0, gm_value |-> RoundDiv10(gm)]
    ELSE IF gm > 100 THEN [gm_high |-> 1, gm_value |-> gm - 100]
    ELSE [gm_high |-> 0, gm_value |-> gm]

compute_cct_value(cct) ==
    LET v == cct * 10
    IN  (IF v > 10000 THEN v - 10000 ELSE v) \div 10

\* A clamp without its upper limit.
clamp_int_low_only(v, lo, hi) == IF v < lo THEN lo ELSE v

clamp_int(v, lo, hi) == IF v < lo THEN lo ELSE IF v > hi THEN hi ELSE v

\* C integer division truncates toward zero
CDiv(a, b) == IF a >= 0 THEN a \div b ELSE 0 - ((0 - a) \div b)

\* Appends the segments of a list of <<value, width>> pairs in order.
RECURSIVE Pack(_, _, _)
Pack(bits, segs, k) ==
    IF k > Len(segs) THEN bits
    ELSE Pack(append_segment(bits, segs[k][1], segs[k][2]), segs, k + 1)

\* The <<value, width>> pairs sidus_build_cct hands to append_segment, in order.
CctSegments(intensity_pct, cct_kelvin, sleep_mode) ==
    LET intensity == clamp_int(RoundDiv10(intensity_pct), 0, 1000)
        cct == clamp_int(CDiv(cct_kelvin, 10), 180, 2000)
        g == compute_gm(0, 100)
    IN  << <<0, 8>>, <<sleep_mode, 1>>, <<0, 20>>, <<0, 12>>, <<0, 1>>,
           <<IF cct * 10 <= 10000 THEN 0 ELSE 1, 1>>, <<0, 1>>,
           <<g.gm_high, 1>>, <<g.gm_value, 7>>, <<compute_cct_value(cct), 10>>,
           <<intensity, 10>>, <<2, 7>>, <<1, 1>> >>

\* bits[] and the cursor (its length) after the last append_segment of
\* sidus_build_cct.
CctBits(intensity_pct, cct_kelvin, sleep_mode) ==
    Pack(<< >>, CctSegments(intensity_pct, cct_kelvin, sleep_mode), 1)

sidus_build_cct(intensity_pct, cct_kelvin, sleep_mode) ==
    bits_to_10bytes(CctBits(intensity_pct, cct_kelvin, sleep_mode))

HsiSegments(intensity_pct, hue, saturation, cct_kelvin, sleep_mode) ==
    LET intensity == clamp_int(RoundDiv10(intensity_pct), 0, 1000)
        h == clamp_int(hue, 0, 360)
        sat == clamp_int(saturation, 0, 100)
        cct == CDiv(cct_kelvin, 50)
        g == compute_gm(0, 100)
        cct_value == CDiv(IF cct * 50 > 10000 THEN cct * 50 - 10000 ELSE cct * 50, 50)
    IN  << <<0, 8>>, <<sleep_mode, 1>>, <<0, 18>>, <<0, 1>>,
           <<IF cct * 50 <= 10000 THEN 0 ELSE 1, 1>>, <<0, 1>>,
           <<g.gm_high, 1>>, <<g.gm_value, 7>>, <<cct_value, 8>>, <<sat, 7>>,
           <<h, 9>>, <<intensity, 10>>, <<1, 7>>, <<1, 1>> >>

HsiBits(intensity_pct, hue, saturation, cct_kelvin, sleep_mode) ==
    Pack(<< >>, HsiSegments(intensity_pct, hue, saturation, cct_kelvin, sleep_mode), 1)

sidus_build_hsi(intensity_pct, hue, saturation, cct_kelvin, sleep_mode) ==
    bits_to_10bytes(HsiBits(intensity_pct, hue, saturation, cct_kelvin, sleep_mode))

SleepSegments(on) ==
    << <<0, 8>>, <<IF on THEN 1 ELSE 0, 1>>, <<0, 20>>, <<0, 12>>, <<0, 1>>,
       <<0, 1>>, <<0, 1>>, <<0, 1>>, <<0, 7>>, <<0, 10>>, <<0, 10>>,
       <<12, 7>>, <<1, 1>> >>

SleepBits(on) == Pack(<< >>, SleepSegments(on), 1)

sidus_build_sleep(on) == bits_to_10bytes(SleepBits(on))

\* The segments sidus_build_effect packs for the effect types it knows.
EffectSegments(effect_type, intensity, frq, cct, color, effect_mode, hue, sat) ==
    LET g == compute_gm(0, 100)
        cct_high == IF cct * 10 > 10000 THEN 1 ELSE 0
        cct_value == compute_cct_value(cct)
        cct_hsi == (IF cct * 50 > 10000 THEN cct * 50 - 10000 ELSE cct * 50) \div 50
        tail == << <<effect_type, 8>>, <<7, 7>>, <<1, 1>> >>
        mtail == << <<intensity, 10>>, <<frq, 4>>, <<effect_mode, 4>> >> \o tail
        ftail == << <<frq, 4>>, <<intensity, 10>> >> \o tail
    IN  CASE effect_type \in {3, 4, 5} ->
               << <<0, 8>>, <<1, 1>>, <<0, 20>>, <<0, 11>>, <<cct, 10>> >> \o ftail
          [] effect_type = 1 ->
               << <<0, 8>>, <<1, 1>>, <<0, 20>>, <<0, 1>>, <<cct_high, 1>>, <<0, 1>>,
                  <<g.gm_high, 1>>, <<g.gm_value, 7>>, <<cct_value, 10>> >> \o ftail
          [] effect_type = 2 ->
               << <<0, 8>>, <<1, 1>>, <<0, 15>>, <<cct_high, 1>>, <<0, 1>>,
                  <<g.gm_high, 1>>, <<8, 4>>, <<2, 2>>, <<g.gm_value, 7>>,
                  <<cct_value, 10>> >> \o ftail
          [] effect_type = 11 ->
               << <<0, 8>>, <<1, 1>>, <<0, 20>>, <<0, 17>>, <<color, 4>> >> \o ftail
          [] effect_type = 13 ->
               << <<0, 8>>, <<1, 1>>, <<0, 20>>, <<0, 14>>, <<sat, 7>> >> \o ftail
          [] effect_type = 14 ->
               << <<0, 8>>, <<1, 1>>, <<0, 20>>, <<0, 13>>, <<0, 8>> >> \o ftail
          [] effect_type \in {6, 7} ->
               << <<0, 8>>, <<1, 1>> >>
               \o (IF effect_mode = 1
                   THEN << <<0, 1>>, <<cct_high, 1>>, <<0, 1>>, <<g.gm_high, 1>>,
                           <<2, 2>>, <<g.gm_value, 7>>, <<cct_hsi, 8>>, <<sat, 7>>,
                           <<hue, 9>> >>
                   ELSE << <<0, 15>>, <<cct_high, 1>>, <<0, 1>>, <<g.gm_high, 1>>,
                           <<2, 2>>, <<g.gm_value, 7>>, <<cct_value, 10>> >>)
               \o mtail
          [] effect_type \in {8, 9} ->
               << <<0, 8>>, <<1, 1>>, <<0, 11>>, <<cct_high, 1>>, <<0, 1>>,
                  <<g.gm_high, 1>>, <<8, 4>>, <<2, 2>>, <<g.gm_value, 7>>,
                  <<cct_value, 10>> >> \o mtail
          [] effect_type = 10 ->
               << <<0, 8>>, <<1, 1>>, <<0, 8>>, <<cct_high, 1>>, <<0, 1>>,
                  <<g.gm_high, 1>>, <<0, 7>>, <<2, 2>>, <<g.gm_value, 7>>,
                  <<cct_value, 10>> >> \o mtail
          [] effect_type = 15 ->
               << <<0, 8>>, <<0, 1>>, <<0, 20>>, <<0, 20>>, <<0, 15>>, <<15, 8>>,
                  <<7, 7>>, <<1, 1>> >>

\* The effect types that have a case of their own in sidus_build_effect.
KnownEffectTypes == {1, 2, 3, 4, 5, 6, 7, 8, 9, 10, 11, 13, 14, 15}

\* A builder that packs an unknown effect type with the layout of Effect Off
\* but with the type it was given.
sidus_build_effect_keeps_type(effect_type, intensity_pct, frq, cct_kelvin, cop_car_color, effect_mode, hue, saturation) ==
    bits_to_10bytes(Pack(<< >>,
        IF effect_type \in KnownEffectTypes
        THEN EffectSegments(effect_type,
                            clamp_int(RoundDiv10(intensity_pct), 0, 1000),
                            clamp_int(frq, 0, 15),
                            clamp_int(CDiv(cct_kelvin, 10), 180, 2000),
                            clamp_int(cop_car_color, 0, 15), effect_mode,
                            clamp_int(hue, 0, 360), clamp_int(saturation, 0, 100))
        ELSE << <<0, 8>>, <<0, 1>>, <<0, 20>>, <<0, 20>>, <<0, 15>>,
                <<effect_type, 8>>, <<7, 7>>, <<1, 1>> >>, 1))

\* The segments of the call of sidus_build_effect that fills bits[]: the call
\* itself, or the call for type 15 that the default case makes.
RECURSIVE EffectCallSegments(_, _, _, _, _, _, _, _)
EffectCallSegments(effect_type, intensity_pct, frq, cct_kelvin, cop_car_color, effect_mode, hue, saturation) ==
    IF effect_type \notin KnownEffectTypes
    THEN EffectCallSegments(15, intensity_pct, frq, cct_kelvin,
                            cop_car_color, effect_mode, hue, saturation)
    ELSE EffectSegments(effect_type,
                        clamp_int(RoundDiv10(intensity_pct), 0, 1000),
                        clamp_int(frq, 0, 15),
                        clamp_int(CDiv(cct_kelvin, 10), 180, 2000),
                        clamp_int(cop_car_color, 0, 15), effect_mode,
                        clamp_int(hue, 0, 360), clamp_int(saturation, 0, 100))

EffectBits(effect_type, intensity_pct, frq, cct_kelvin, cop_car_color, effect_mode, hue, saturation) ==
    Pack(<< >>, EffectCallSegments(effect_type, intensity_pct, frq, cct_kelvin, cop_car_color, effect_mode, hue, saturation), 1)

sidus_build_effect(effect_type, intensity_pct, frq, cct_kelvin, cop_car_color, effect_mode, hue, saturation) ==
    bits_to_10bytes(EffectBits(effect_type, intensity_pct, frq, cct_kelvin, cop_car_color, effect_mode, hue, saturation))

sidus_build_access_cct(intensity, cct_kelvin, sleep_mode) ==
    <<38>> \o sidus_build_cct(intensity, cct_kelvin, sleep_mode)

sidus_build_access_hsi(intensity, hue, saturation, cct_kelvin, sleep_mode) ==
    <<38>> \o sidus_build_hsi(intensity, hue, saturation, cct_kelvin, sleep_mode)

sidus_build_access_sleep(on) == <<38>> \o sidus_build_sleep(on)

sidus_build_access_effect(effect_type, intensity, frq, cct_kelvin, cop_car_color, effect_mode, hue, saturation) ==
    <<38>> \o sidus_build_effect(effect_type, intensity, frq, cct_kelvin,
                                 cop_car_color, effect_mode, hue, saturation)

-----------------------------------------------------------------------------
(* The encoder specification: every builder applied to inputs inside and    *)
(* outside the ranges it clamps to.                                         *)

\* intensity_pct in hundredths of a percent: negative, 0, 50.55, 100, 200
SidusIntensities == {0 - 100, 0, 5055, 10000, 20000}
\* below zero by less than a step, 50.54 and 50.55 %, just above 100 %, 200 %
SidusEffectIntensities == {0 - 4, 0, 5054, 5055, 10006, 20000}
SidusKelvins == {0 - 50, 0, 1800, 5600, 10000, 10050, 20000, 30000}
SidusHues == {0 - 1, 0, 200, 360, 400}
SidusSaturations == {0 - 1, 0, 100, 150}
SidusSleepModes == {0, 1, 2}
\* every effect type with a case, and 0, 12, 16, 255, 271 and -1 without one
SidusEffectTypes == (0 .. 16) \cup {255, 271, 0 - 1}
SidusFrequencies == {8, 20}
SidusModes == {0, 1, 2}

\* One builder call per run: the builders keep no state between calls.
BuildAccess(op, input, msg, segs) ==
    /\ last.op = "boot"
    /\ last' = [Last(op, 0) EXCEPT !.note = <<input, msg, Pack(<< >>, segs, 1), segs>>]
    /\ UNCHANGED <<cryptoVars, s_sequence_number, bleVars, lights, engineVars,
                   pdu_log, outputs, events, taskVars>>

BuildCct ==
    \E i \in SidusIntensities, k \in SidusKelvins, s \in SidusSleepModes :
        BuildAccess("build_cct", <<i, k, s>>, sidus_build_access_cct(i, k, s),
                    CctSegments(i, k, s))

BuildHsi ==
    \E i \in SidusIntensities, h \in SidusHues, sa \in SidusSaturations,
       k \in {5600, 10050}, s \in SidusSleepModes :
        BuildAccess("build_hsi", <<i, h, sa, k, s>>,
                    sidus_build_access_hsi(i, h, sa, k, s), HsiSegments(i, h, sa, k, s))

BuildSleep ==
    \E on \in BOOLEAN : BuildAccess("build_sleep", <<on>>, sidus_build_access_sleep(on),
                                SleepSegments(on))

BuildEffect ==
    \E t \in SidusEffectTypes, i \in SidusEffectIntensities, f \in SidusFrequencies,
       k \in {1800, 20000}, c \in {5}, m \in SidusModes,
       h \in {0, 200}, sa \in {0, 100} :
        BuildAccess("build_effect", <<t, i, f, k, c, m, h, sa>>,
                    sidus_build_access_effect(t, i, f, k, c, m, h, sa),
                    EffectCallSegments(t, i, f, k, c, m, h, sa))

NextSidus == BuildCct \/ BuildHsi \/ BuildSleep \/ BuildEffect

SpecSidus == InitBoot /\ [][NextSidus]_vars

BuildOps == {"build_cct", "build_hsi", "build_sleep", "build_effect"}

\* C16: every access message is 11 bytes, starts with 0x26, and the first
\* byte of its 10-byte payload is the sum of the other nine modulo 256.
C16_AccessChecksum ==
    last.op \in BuildOps =>
        LET m == last.note[2]
        IN  /\ Len(m) = 11
            /\ m[1] = 38
            /\ \A k \in 1 .. 11 : m[k] \in 0 .. 255
            /\ m[2] = (m[3] + m[4] + m[5] + m[6] + m[7] + m[8] + m[9] + m[10] + m[11]) % 256

\* An access message whose nine payload bytes sum to more than 255, so that
\* the checksum byte is the sum reduced modulo 256.
C16_Witness ==
    /\ last.op \in BuildOps
    /\ SumBytes(last.note[2], 3) > 255
    /\ last.note[2][2] = SumBytes(last.note[2], 3) - 256

\* C17: for an effect type without a case of its own the payload is the one
\* built for type 15 (Effect Off), and that payload is the same for every
\* intensity, frequency, cct, colour, mode, hue and saturation.
C17_UnknownEffectIsOff ==
    (last.op = "build_effect" /\ last.note[1][1] \notin (KnownEffectTypes \ {15})) =>
        LET in == last.note[1]
            payload == SubSeq(last.note[2], 2, 11)
        IN  /\ payload = sidus_build_effect(15, in[2], in[3], in[4], in[5], in[6], in[7], in[8])
            /\ payload = sidus_build_effect(15, 0, 0, 0, 0, 0, 0, 0)

\* An effect message was built for type 12 with inputs that are not zero.
C17_Witness ==
    /\ last.op = "build_effect"
    /\ last.note[1][1] = 12
    /\ last.note[1][2] > 0 /\ last.note[1][3] > 0 /\ last.note[1][6] = 1
    /\ last.note[1][7] > 0
    /\ last.note[2] = <<38, 150, 0, 0, 0, 0, 0, 0, 0, 15, 135>>


-----------------------------------------------------------------------------
(* Properties of commands for unknown targets and of a full pool (checked   *)
(* under SpecDispatch)                                                      *)

\* The last handler was a command with all its fields present, addressed to a
\* unicast the registry does not hold.
UnknownTarget ==
    /\ last.op \in SendOps \cup {"start_effect"}
    /\ last.u # 0
    /\ light_registry_find_by_unicast(lights, last.u) = -1

\* C19: a set_cct, set_hsi, sleep, set_effect or start_effect command for a
\* unicast that is not registered builds no PDU, creates no effect instance
\* and emits an error event.
C19_UnknownTargetDropped ==
    UnknownTarget =>
        /\ Len(pdu_log) = last.n0
        /\ last.op = "start_effect" => RunningSlots \subseteq last.note[1]
        /\ HasError

\* A start_effect command for an unregistered unicast created an instance,
\* sent its first output as a proxy PDU and emitted no event.
C19_UnknownTargetServed ==
    /\ UnknownTarget
    /\ last.op = "start_effect"
    /\ RunningFor(last.u) # {}
    /\ ~(RunningSlots \subseteq last.note[1])
    /\ Len(pdu_log) > last.n0
    /\ events = << >>

\* Every pool slot runs an effect, none of them for unicast u.
PoolFullForOthers(u) ==
    \A i \in LightSlots : s_instances[i].running /\ s_instances[i].unicast # u

\* C20: a start_effect command handled while all MAX_LIGHTS slots run effects
\* of other unicasts creates no instance, leaves the running instances as
\* they were, and emits an error event.
C20_FullPoolStartRejected ==
    [][(last'.op = "start_effect" /\ last'.err = "none" /\ PoolFullForOthers(last'.u)) =>
          /\ s_instances' = s_instances
          /\ \E k \in 1 .. Len(events') : events'[k].event = "error"]_vars

\* A start_effect command was handled with the pool full: the nine instances
\* are untouched and no event was emitted.
C20_FullPoolStartSilent ==
    /\ last.op = "start_effect" /\ last.err = "none"
    /\ Cardinality(last.note[1]) = MAX_LIGHTS
    /\ RunningFor(last.u) = {}
    /\ s_instances = FullPool
    /\ events = << >>


-----------------------------------------------------------------------------
(* mesh_crypto.c: the bytes of a proxy PDU.  AES-128 (mbedtls) is a library  *)
(* primitive: the model keeps it a deterministic mixing function of key and  *)
(* block; ok = FALSE is the outcome in which mbedtls_aes_setkey_enc or       *)
(* mbedtls_aes_crypt_ecb reports an error.                                   *)

RECURSIVE XorByte(_, _, _)
XorByte(a, b, n) ==
    IF n = 0 THEN 0
    ELSE (((a % 2) + (b % 2)) % 2) + 2 * XorByte(a \div 2, b \div 2, n - 1)

XorSeq(x, y) == [k \in 1 .. Len(x) |-> XorByte(x[k], y[k], 8)]

ZeroBlock == [k \in 1 .. 16 |-> 0]

\* aes_ecb_block: on an error of the primitive the output block is zeroed and
\* the function returns; it is void, so its caller is told nothing.
aes_ecb_block(key, in_block, ok) ==
    IF ~ok THEN ZeroBlock
    ELSE [k \in 1 .. 16 |-> CmacFold((key * 131 + k) % 65521, in_block, 1) % 256]

\* Plaintext bytes start+1 .. end of block i (0-based), zero padded to 16.
PlainBlock(plaintext, i) ==
    [k \in 1 .. 16 |-> IF i * 16 + k <= Len(plaintext) THEN plaintext[i * 16 + k] ELSE 0]

RECURSIVE CbcMac(_, _, _, _, _)
CbcMac(key, plaintext, cbc_state, i, ok) ==
    IF i >= (Len(plaintext) + 15) \div 16 THEN cbc_state
    ELSE CbcMac(key, plaintext,
                aes_ecb_block(key, XorSeq(PlainBlock(plaintext, i), cbc_state), ok),
                i + 1, ok)

\* The keystream byte for plaintext position j (1-based): block A_counter.
CtrByte(key, nonce, j, ok) ==
    LET counter == ((j - 1) \div 16) + 1
        ai == <<1>> \o nonce \o <<Byte(counter, 256), Byte(counter, 1)>>
    IN  aes_ecb_block(key, ai, ok)[((j - 1) % 16) + 1]

\* aes_ccm_encrypt with its output: len is the value returned (0 on failure),
\* out the bytes written (ciphertext then MIC).
aes_ccm_encrypt_bytes(key, nonce, plaintext, mic_size, ok) ==
    IF mic_size # 4 /\ mic_size # 8 THEN [len |-> 0, out |-> << >>]
    ELSE
    LET pt_len == Len(plaintext)
        flags_b0 == ((mic_size - 2) \div 2) * 8 + 1
        b0 == <<flags_b0>> \o nonce \o <<Byte(pt_len, 256), Byte(pt_len, 1)>>
        cbc == CbcMac(key, plaintext, aes_ecb_block(key, b0, ok), 0, ok)
        tag == SubSeq(cbc, 1, mic_size)
        a0 == <<1>> \o nonce \o <<0, 0>>
        s0 == aes_ecb_block(key, a0, ok)
        mic == XorSeq(tag, SubSeq(s0, 1, mic_size))
        enc == [j \in 1 .. pt_len |-> XorByte(plaintext[j], CtrByte(key, nonce, j, ok), 8)]
    IN  [len |-> pt_len + mic_size, out |-> enc \o mic]

\* obfuscate: the header XORed with the first six bytes of PECB.
obfuscate(ctl_ttl, seq, src, enc_payload, priv_key, iv_index, ok) ==
    LET pecb_input == <<0, 0, 0, 0, 0,
                        Byte(iv_index, 16777216), Byte(iv_index, 65536),
                        Byte(iv_index, 256), Byte(iv_index, 1)>>
                      \o SubSeq(enc_payload, 1, 7)
        pecb == aes_ecb_block(priv_key, pecb_input, ok)
    IN  XorSeq(obfuscate_header(ctl_ttl, seq, src), SubSeq(pecb, 1, 6))

\* The outcome of the primitive in the three places a builder uses it.
AesAllOk == [app |-> TRUE, net |-> TRUE, obf |-> TRUE]

\* mesh_crypto_create_standard_pdu after seq = s_sequence_number, with the
\* bytes it writes to out_pdu: ret is the value returned.
StandardPduBytes(mc, seq, access_message, dst, out_max, aes) ==
    LET src == mc.src
        ttl == 7
        app_nonce == build_application_nonce(seq, src, dst, mc.iv_index)
        ea == aes_ccm_encrypt_bytes(mc.app, app_nonce, access_message, 4, aes.app)
        ltp_header == 64 + (mc.aid % 64)
        lower_transport == <<ltp_header>> \o ea.out
        ivi == mc.iv_index % 2
        nid_byte == ivi * 128 + (mc.nid % 128)
        ctl_ttl == ttl % 128
        net_nonce == build_network_nonce(0, ttl, seq, src, mc.iv_index)
        dst_transport == <<Byte(dst, 256), Byte(dst, 1)>> \o lower_transport
        en == aes_ccm_encrypt_bytes(mc.enc, net_nonce, dst_transport, 4, aes.net)
        obfuscated_header == obfuscate(ctl_ttl, seq, src, en.out, mc.priv,
                                       mc.iv_index, aes.obf)
        total_len == 1 + (1 + 6 + en.len)
    IN  IF ea.len = 0 \/ en.len = 0 \/ total_len > out_max
        THEN [ret |-> 0, pdu |-> << >>, plain |-> dst_transport]
        ELSE [ret |-> total_len,
              pdu |-> <<0, nid_byte>> \o obfuscated_header \o en.out,
              plain |-> dst_transport]

\* A filter setup sent as an access-style PDU: CTL = 0, TTL = 7 and a 4-byte
\* NetMIC.
FilterSetupBytesShortMic(mc, seq, out_max, aes) ==
    LET net_nonce == build_network_nonce(0, 7, seq, mc.src, mc.iv_index)
        en == aes_ccm_encrypt_bytes(mc.enc, net_nonce, <<0, 0, 0, 1>>, 4, aes.net)
        hdr == obfuscate(7, seq, mc.src, en.out, mc.priv, mc.iv_index, aes.obf)
    IN  [ret |-> 8 + en.len,
         pdu |-> <<2, (mc.iv_index % 2) * 128 + (mc.nid % 128)>> \o hdr \o en.out,
         plain |-> <<0, 0, 0, 1>>]

\* mesh_crypto_create_proxy_filter_setup after seq = s_sequence_number.
FilterSetupBytes(mc, seq, out_max, aes) ==
    LET src == mc.src
        dst == 0
        lower_transport_pdu == <<0, 1>>
        ivi == mc.iv_index % 2
        nid_byte == ivi * 128 + (mc.nid % 128)
        ctl_ttl == 128
        net_nonce == build_network_nonce(1, 0, seq, src, mc.iv_index)
        dst_transport == <<Byte(dst, 256), Byte(dst, 1)>> \o lower_transport_pdu
        en == aes_ccm_encrypt_bytes(mc.enc, net_nonce, dst_transport, 8, aes.net)
        obfuscated_header == obfuscate(ctl_ttl, seq, src, en.out, mc.priv,
                                       mc.iv_index, aes.obf)
        total_len == 1 + (1 + 6 + en.len)
    IN  IF en.len = 0 \/ total_len > out_max
        THEN [ret |-> 0, pdu |-> << >>, plain |-> dst_transport]
        ELSE [ret |-> total_len,
              pdu |-> <<2, nid_byte>> \o obfuscated_header \o en.out,
              plain |-> dst_transport]

-----------------------------------------------------------------------------
(* The PDU specification: each builder applied once to a security context,  *)
(* a sequence value, an access message and an outcome of the AES primitive. *)

\* What mesh_crypto_init derives from a key set.
PduCtx(ks) ==
    LET d == mesh_crypto_k2(ks.nk, <<0>>)
    IN  [app |-> ks.ak, enc |-> d.enc, priv |-> d.priv, nid |-> d.nid,
         aid |-> mesh_crypto_k4(ks.ak), iv_index |-> ks.iv, src |-> ks.src]

PduKeySets == {LongRunKeys, [nk |-> 2, ak |-> 1, iv |-> 2, src |-> 513]}
PduSeqs == {NextSeq(U32(0, SEQ_INITIAL)), U32(1, 66051)}
\* The access messages of a CCT and of a sleep command, a one-byte message
\* and the longest message whose PDU fits the 64-byte buffer of the caller.
PduAccessMessages ==
    {sidus_build_access_cct(5055, 5600, 1), sidus_build_access_sleep(TRUE),
     <<38>>, [k \in 1 .. (OUT_MAX - 19) |-> k]}
AesOutcomes == [app : BOOLEAN, net : BOOLEAN, obf : BOOLEAN]

\* One builder call per run: the note keeps the inputs and the result.
BuildPdu(op, mc, seq, input, aes, r) ==
    /\ last.op = "boot"
    /\ last' = [Last(op, 0) EXCEPT !.note = <<mc, seq, input, aes, r>>]
    /\ UNCHANGED <<cryptoVars, s_sequence_number, bleVars, lights, engineVars,
                   pdu_log, outputs, events, taskVars>>

BuildStandardPdu ==
    \E ks \in PduKeySets, seq \in PduSeqs, m \in PduAccessMessages,
       dst \in Unicasts, aes \in AesOutcomes :
        BuildPdu("build_std", PduCtx(ks), seq, <<m, dst>>, aes,
                 StandardPduBytes(PduCtx(ks), seq, m, dst, OUT_MAX, aes))

BuildFilterSetup ==
    \E ks \in PduKeySets, seq \in PduSeqs, aes \in AesOutcomes :
        BuildPdu("build_filter", PduCtx(ks), seq, << >>, aes,
                 FilterSetupBytes(PduCtx(ks), seq, OUT_MAX, aes))

NextPdu == BuildStandardPdu \/ BuildFilterSetup

SpecPdu == InitBoot /\ [][NextPdu]_vars

PduOps == {"build_std", "build_filter"}
\* The primitive reported an error in one of the places the builder used it.
AesFailed ==
    /\ last.op \in PduOps
    /\ \/ ~last.note[4].net
       \/ ~last.note[4].obf
       \/ last.op = "build_std" /\ ~last.note[4].app

\* C21: when the AES primitive reports an error while a PDU is built, the
\* builder returns 0 and hands no PDU bytes to its caller.
C21_AesErrorFailsBuild ==
    AesFailed => (last.note[5].ret = 0 /\ last.note[5].pdu = << >>)

\* The primitive failed in the network-layer CCM of a standard PDU: the
\* builder returned the full length, and the PDU carries the destination and
\* the lower transport PDU unencrypted, followed by a zero NetMIC.
C21_AesErrorBuildsPdu ==
    /\ last.op = "build_std"
    /\ ~last.note[4].net
    /\ LET r == last.note[5]
           n == Len(last.note[3][1])
       IN  /\ r.ret = n + 19
           /\ SubSeq(r.pdu, 9, 8 + Len(r.plain)) = r.plain
           /\ SubSeq(r.pdu, 9 + Len(r.plain), r.ret) = <<0, 0, 0, 0>>

\* The header a receiver recovers from bytes 3..8 of a PDU built under mc.
Deobfuscated(mc, pdu) ==
    XorSeq(SubSeq(pdu, 3, 8),
           SubSeq(aes_ecb_block(mc.priv,
                                <<0, 0, 0, 0, 0, Byte(mc.iv_index, 16777216),
                                  Byte(mc.iv_index, 65536), Byte(mc.iv_index, 256),
                                  Byte(mc.iv_index, 1)>> \o SubSeq(pdu, 9, 15),
                                TRUE), 1, 6))

\* C23: a filter setup PDU is 20 bytes: 0x02, the IVI/NID byte, the header
\* (CTL = 1, TTL = 0, SEQ, SRC) obfuscated, and DST = 0x0000, 0x00, 0x01
\* encrypted under the network nonce with an 8-byte NetMIC; a standard PDU for
\* an access message of n bytes is n + 19 bytes, starts with 0x00 and carries
\* CTL = 0, TTL = 7.
C23_PduLayout ==
    (last.op \in PduOps /\ ~AesFailed) =>
        LET mc == last.note[1]
            seq == last.note[2]
            r == last.note[5]
            nid_byte == (mc.iv_index % 2) * 128 + mc.nid
            hdr == Deobfuscated(mc, r.pdu)
        IN  /\ Len(r.pdu) = r.ret
            /\ r.pdu[2] = nid_byte
            /\ SubSeq(hdr, 2, 6) = <<SeqByte(seq, 65536), SeqByte(seq, 256),
                                     SeqByte(seq, 1), Byte(mc.src, 256), Byte(mc.src, 1)>>
            /\ IF last.op = "build_filter"
               THEN /\ r.ret = 20
                    /\ r.pdu[1] = 2
                    /\ hdr[1] = 128
                    /\ SubSeq(r.pdu, 9, 20) =
                          aes_ccm_encrypt_bytes(mc.enc,
                              build_network_nonce(1, 0, seq, mc.src, mc.iv_index),
                              <<0, 0, 0, 1>>, 8, TRUE).out
               ELSE /\ r.ret = Len(last.note[3][1]) + 19
                    /\ r.pdu[1] = 0
                    /\ hdr[1] = 7

\* A filter setup PDU was built without a primitive error under a context
\* whose IV index is odd.
C23_Witness ==
    /\ last.op = "build_filter"
    /\ ~AesFailed
    /\ last.note[1].iv_index % 2 = 1
    /\ last.note[5].ret = 20
    /\ last.note[5].pdu[2] >= 128


-----------------------------------------------------------------------------
(* ws_server.c: set_keys with the key strings of the JSON message.  A key   *)
(* string is the sequence of its characters: a hex digit is its value       *)
(* 0..15, NonHex is any other (non-blank) character.  A JSON item is        *)
(* absent, a string, or a value that is not a string (cJSON leaves its      *)
(* valuestring NULL).                                                       *)

NonHex == 16
JsonAbsent == [kind |-> "absent", chars |-> << >>]
JsonNumber == [kind |-> "number", chars |-> << >>]
JsonString(chars) == [kind |-> "string", chars |-> chars]

\* The for loop of parse_hex_string: sscanf(hex + i * 2, "%2x", &b) fails on a
\* leading non-hex character and reads one digit when only the second
\* character is not a hex digit.
RECURSIVE ParseHexLoop(_, _, _, _)
ParseHexLoop(hex, byte_count, i, out) ==
    IF i >= byte_count THEN [n |-> byte_count, out |-> out]
    ELSE IF hex[2 * i + 1] = NonHex THEN [n |-> i, out |-> out]
    ELSE ParseHexLoop(hex, byte_count, i + 1,
                      Append(out, IF hex[2 * i + 2] = NonHex THEN hex[2 * i + 1]
                                  ELSE 16 * hex[2 * i + 1] + hex[2 * i + 2]))

\* n is the return value, out the bytes written to the front of the buffer.
parse_hex_string(hex, max_len) ==
    IF hex.kind # "string" THEN [n |-> 0, out |-> << >>]
    ELSE ParseHexLoop(hex.chars, Min(Len(hex.chars) \div 2, max_len), 0, << >>)

\* uint8_t network_key[16], app_key[16] are not initialised: the bytes that
\* parse_hex_string does not write keep what the stack held.
KeyBuffer(parsed, stack) == parsed.out \o SubSeq(stack, parsed.n + 1, 16)

\* The number that names a 16-byte key in the security context.
KeyOfBytes(buf) == CmacFold(0, buf, 1)

\* The fields of a set_keys message as handle_set_keys uses them; nk_len and
\* ak_len are the return values of parse_hex_string, which the handler drops.
DecodeKey(item, stack) ==
    IF item.kind = "absent" THEN ABSENT
    ELSE KeyOfBytes(KeyBuffer(parse_hex_string(item, 16), stack))

DecodeLen(item) ==
    IF item.kind = "absent" THEN ABSENT ELSE parse_hex_string(item, 16).n

handle_set_keys_json(nk, ak, iv, src, stack_nk, stack_ak) ==
    handle_set_keys([nk |-> DecodeKey(nk, stack_nk), ak |-> DecodeKey(ak, stack_ak),
                     iv |-> iv, src |-> src,
                     nk_len |-> DecodeLen(nk), ak_len |-> DecodeLen(ak)])

KeyHexA == [k \in 1 .. 32 |-> k % 16]
KeyHexB == [k \in 1 .. 32 |-> (7 * k + 3) % 16]
\* A missing item, a number, two 32-digit keys, a 4-digit key, a key with a
\* non-hex character in its seventh place.
JsonKeys == {JsonAbsent, JsonNumber, JsonString(KeyHexA), JsonString(KeyHexB),
             JsonString(SubSeq(KeyHexA, 1, 4)),
             JsonString([KeyHexB EXCEPT ![7] = NonHex])}
StackContents == {ZeroBlock, [k \in 1 .. 16 |-> 170]}

SetKeysJson ==
    \E nk \in JsonKeys, ak \in JsonKeys, stack_nk \in StackContents,
       stack_ak \in StackContents :
        handle_set_keys_json(nk, ak, 1, ABSENT, stack_nk, stack_ak)

NextKeys == SetKeysJson

SpecKeys == InitBoot /\ [][NextKeys]_vars

\* C22: a set_keys command whose network_key or app_key is missing or does
\* not decode to 16 bytes leaves the security context (keys, derived
\* material, initialised flag) as it was.
C22_BadKeysRejected ==
    [][(last'.op = "set_keys"
        /\ (last'.note.nk_len # 16 \/ last'.note.ak_len # 16))
       => UNCHANGED cryptoVars]_vars

\* A set_keys whose network_key has two bytes of hex was applied: the context
\* is initialised with a network key made of those two bytes and of what the
\* stack held.
C22_ShortKeyApplied ==
    /\ last.op = "set_keys"
    /\ last.err = "applied"
    /\ last.note.nk_len = 2
    /\ last.note.ak_len = 16
    /\ s_initialized
    /\ s_network_key = KeyOfBytes(<<18, 52>> \o [k \in 1 .. 14 |-> 170])


-----------------------------------------------------------------------------
(* sidus_protocol.c: the bit cursor and the intensity field *)

\* C24: in every command schedule the bit cursor after the last
\* append_segment is 80.
C24_CursorIsEighty ==
    last.op \in BuildOps => Len(last.note[3]) = 80

\* A strobe effect (type 6) was packed on its HSI branch with a hue that is
\* not 0, and its cursor ended at 80.
C24_Witness ==
    /\ last.op = "build_effect"
    /\ last.note[1][1] = 6
    /\ last.note[1][6] = 1
    /\ last.note[1][7] = 200
    /\ Len(last.note[3]) = 80

\* The value of the width-bit field that starts after off bits of bits[].
RECURSIVE FieldAt(_, _, _)
FieldAt(bits, off, width) ==
    IF width = 0 THEN 0
    ELSE bits[off + 1] + 2 * FieldAt(bits, off + 1, width - 1)

\* Where the schedule of the last build put the 10-bit intensity, or ABSENT
\* if it packs none (sleep, Effect Off).
IntensityOffset ==
    CASE last.op \in {"build_cct", "build_hsi"} -> 62
      [] last.op = "build_effect" /\ last.note[1][1] \in {6, 7, 8, 9, 10} -> 46
      [] last.op = "build_effect"
         /\ last.note[1][1] \in {1, 2, 3, 4, 5, 11, 13, 14} -> 54
      [] OTHER -> ABSENT

\* intensity_pct of the last build, in hundredths of a percent.
IntensityInput ==
    IF last.op = "build_effect" THEN last.note[1][2] ELSE last.note[1][1]

\* C25: the intensity packed by sidus_build_cct, sidus_build_hsi and
\* sidus_build_effect lies in 0..1000; it is round(10 * intensity_pct) for an
\* intensity_pct in 0..100 (halves away from zero), 0 below and 1000 above.
C25_IntensityClamped ==
    (last.op \in BuildOps /\ IntensityOffset # ABSENT) =>
        LET v == FieldAt(last.note[3], IntensityOffset, 10)
            x == IntensityInput
        IN  /\ v \in 0 .. 1000
            /\ x < 0 => v = 0
            /\ x > 10000 => v = 1000
            /\ x \in 0 .. 10000 => (10 * v - 5 <= x /\ x < 10 * v + 5)
            /\ x = 0 => v = 0
            /\ x = 10000 => v = 1000

\* An effect was packed for 200 % and its intensity field holds 1000.
C25_Witness ==
    /\ last.op = "build_effect"
    /\ last.note[1][1] = 3
    /\ last.note[1][2] = 20000
    /\ FieldAt(last.note[3], 54, 10) = 1000


-----------------------------------------------------------------------------
(* The faulty-bulb engine on one light, started with level ranges and point *)
(* counts inside and outside the ranges the table builder expects.          *)

\* faulty_min and faulty_max: ascending, descending, equal
FaultyRanges == {<<20 * FX, 100 * FX>>, <<100 * FX, 20 * FX>>, <<50 * FX, 50 * FX>>}
\* faulty_points: negative, below 2, inside 2..32, above 32
FaultyPointCounts == {0 - 1, 1, 5, 33}
FaultyWarmths == {0, 50 * FX}

FaultyParams(range, points, warmth) ==
    [DefaultParams EXCEPT !.faulty_min = range[1], !.faulty_max = range[2],
                          !.faulty_points = points, !.faulty_warmth = warmth,
                          !.faulty_warmest_cct = 2700, !.faulty_bias = 100 * FX,
                          !.faulty_recovery = 50 * FX, !.faulty_frequency = 5 * FX]

FaultyDraws == [t1 : {0, 99}, t2 : {50}, n : {0, 40}, td : {50}, arm : {"ok"}]

FaultyStart ==
    \E range \in FaultyRanges, points \in FaultyPointCounts, warmth \in FaultyWarmths,
       r \in FaultyDraws :
        StartEffect(256, EFFECT_FAULTY_BULB, FaultyParams(range, points, warmth), r)
FaultyTimerExpire == \E i \in LightSlots : TimerExpires(i)
FaultyTimerCallback == \E c \in inflight, r \in FaultyDraws : RunCallback(c, r)

NextFaulty == FaultyStart \/ FaultyTimerExpire \/ FaultyTimerCallback

SpecFaulty == InitEngine /\ [][NextFaulty]_vars

\* The slots that run a faulty-bulb effect.
FaultySlots ==
    {i \in LightSlots : s_instances[i].running /\ s_instances[i].type = EFFECT_FAULTY_BULB}

\* C26: the level table of a faulty-bulb effect has 1..32 entries, exactly
\* one when faulty_min = faulty_max; the level computation divides by the
\* entry count less one, which is at least 1 whenever more than one entry is
\* built, and the warmth dip divides by faulty_max - faulty_min only when
\* that is positive.
C26_FaultyTableBounded ==
    \A i \in FaultySlots :
        LET p == s_instances[i].params
            pts == faulty_points(p, 32)
        IN  /\ Len(pts) \in 1 .. 32
            /\ p.faulty_min = p.faulty_max <=> Len(pts) = 1
            /\ p.faulty_min # p.faulty_max => Len(pts) - 1 >= 1
            /\ DipDivides(p) => p.faulty_max - p.faulty_min > 0
            /\ \A k \in 1 .. Len(pts) :
                   /\ pts[k] >= Min(p.faulty_min, p.faulty_max)
                   /\ pts[k] <= Max(p.faulty_min, p.faulty_max)

\* A flicker event ran on an effect started with 33 points and
\* faulty_min > faulty_max, and sent a level below the top of the range.
C26_Witness ==
    /\ last.op = "timer"
    /\ \E i \in FaultySlots :
          /\ s_instances[i].params.faulty_points = 33
          /\ s_instances[i].params.faulty_min > s_instances[i].params.faulty_max
          /\ s_instances[i].params.faulty_warmth > 0
          /\ s_instances[i].current_intensity < 100 * FX
    /\ outputs # << >>


-----------------------------------------------------------------------------
(* The explosion and strobe effects on one light.  A timer that expires has *)
(* its callback run to completion before the next command is handled.       *)

\* params.intensity: 0, below and at the 5 % threshold of the explosion
\* step, full
FlashIntensities == {0, 4 * FX, 5 * FX, 100 * FX}
\* strobe_hz: 4 Hz (cycle 250 ms), 50 Hz (cycle 20 ms), 200 Hz (cycle 5 ms)
StrobeRates == {4 * FX, 50 * FX, 200 * FX}

FlashParams(intensity, hz) ==
    [DefaultParams EXCEPT !.intensity = intensity, !.strobe_hz = hz]

\* The timer of slot i expires and the timer task runs its callback.
TimerFires(i, r) ==
    /\ s_instances[i].timer.armed
    /\ LET W0 == [World EXCEPT !.inst[i].timer.armed = FALSE, !.rnd = r]
           W  == timer_dispatch(W0, CtxOf(i))
       IN  Commit([TransmitOutputs(W, 1) EXCEPT !.note = <<s_instances[i].timer.tag>>],
                  "timer", s_instances[i].unicast, "none")
    /\ UNCHANGED <<cryptoVars, bleVars, inflight, stopped, taskVars>>

FlashStart ==
    \E t \in {EFFECT_EXPLOSION, EFFECT_STROBE}, intensity \in FlashIntensities,
       hz \in StrobeRates, r \in EngineDraws :
        StartEffect(256, t, FlashParams(intensity, hz), r)
FlashStop == StopEffect(256)
FlashTimerFires == \E i \in LightSlots, r \in EngineDraws : TimerFires(i, r)

NextFlash == FlashStart \/ FlashStop \/ FlashTimerFires

SpecFlash == InitEngine /\ [][NextFlash]_vars

\* The output send_color makes for a lit light at the given intensity, and
\* the zero output that puts it to sleep.
IsFlash(o, intensity) == o.intensity = intensity /\ o.sleep_mode = 1
IsZero(o) == o.intensity = 0 /\ o.sleep_mode = 0

\* C27: effect_engine_start with type explosion emits the initial flash at
\* params.intensity as its first output.
C27_StartFlashes ==
    (last.op = "start" /\ last.note[1] = EFFECT_EXPLOSION) =>
        /\ Len(outputs) = 1
        /\ IsFlash(outputs[1], last.note[3].intensity)

\* An explosion started at 100 % has had a step run and still has emitted
\* nothing: its intensity stands at 100 %, its phase at 0, and the next step
\* is armed.
C27_ExplosionStaysDark ==
    /\ last.op = "timer"
    /\ outputs = << >>
    /\ s_instances[0].running
    /\ s_instances[0].type = EFFECT_EXPLOSION
    /\ s_instances[0].params.intensity = 100 * FX
    /\ s_instances[0].current_intensity = 100 * FX
    /\ s_instances[0].phase_time = 0
    /\ s_instances[0].timer.armed
    /\ s_instances[0].timer.tag = CB_SOFTWARE_STEP

\* The slot that runs a strobe for the unicast of the step just taken.
StrobeSlot(u) ==
    IF RunningSlot(World, u) # -1
       /\ s_instances[RunningSlot(World, u)].type = EFFECT_STROBE
    THEN RunningSlot(World, u) ELSE -1

\* max(10 ms, 1 / strobe_hz - 10 ms) in microseconds for the rates explored.
OffDuration(hz) ==
    CASE hz = 4 * FX -> 240000
      [] hz = 50 * FX -> 10000
      [] hz = 200 * FX -> 10000

\* A step of a running strobe: the start emits zero and arms the first flash;
\* a flash callback emits params.intensity and arms the zero 10 ms later; a
\* zero callback emits zero and arms the next flash after zero_to_flash(hz).
StrobeStep(first_delay(_), zero_to_flash(_)) ==
    LET u == last'.u
        i == StrobeSlot(u)
        j == RunningSlot([World EXCEPT !.inst = s_instances'], u)
    IN  /\ (last'.op = "start" /\ last'.note[1] = EFFECT_STROBE) =>
              /\ Len(outputs') = 1 /\ IsZero(outputs'[1])
              /\ s_instances'[j].timer.armed
              /\ s_instances'[j].timer.tag = CB_SOFTWARE_STROBE_NEXT
              /\ s_instances'[j].timer.us = first_delay(last'.note[3].strobe_hz)
        /\ (last'.op = "timer" /\ i # -1) =>
              LET a == s_instances[i]
                  b == s_instances'[i]
              IN  /\ a.timer.tag \in {CB_SOFTWARE_STROBE_NEXT, CB_SOFTWARE_STROBE_OFF}
                  /\ b.timer.armed
                  /\ Len(outputs') = 1
                  /\ IF a.timer.tag = CB_SOFTWARE_STROBE_NEXT
                     THEN /\ IsFlash(outputs'[1], a.params.intensity)
                          /\ b.timer.tag = CB_SOFTWARE_STROBE_OFF
                          /\ b.timer.us = 10000
                     ELSE /\ IsZero(outputs'[1])
                          /\ b.timer.tag = CB_SOFTWARE_STROBE_NEXT
                          /\ b.timer.us = zero_to_flash(a.params.strobe_hz)

FirstFlashDelay(hz) == 50000

-----------------------------------------------------------------------------
(* effect_engine.c: every step of a running effect arms the next one *)

\* Slot i has a timer pending: armed, or expired with its callback taken by
\* the timer task and not yet run.
TimerPending(i) ==
    s_instances'[i].timer.armed \/ \E c \in inflight' : c.inst = i

\* C29: effect_engine_start and every timer callback that runs on a running
\* instance end with a timer pending for the instance, for every effect type
\* and callback tag, when timer allocation succeeds.
C29_StepArmsNext ==
    [][/\ last'.op = "start" =>
            \E i \in LightSlots :
                /\ s_instances'[i].running
                /\ s_instances'[i].unicast = last'.u
                /\ s_instances'[i].timer.armed
       /\ (last'.op = "timer" /\ last'.note = << TRUE >>) =>
            \A i \in LightSlots :
                (s_instances'[i].running /\ s_instances'[i].unicast = last'.u)
                    => TimerPending(i)]_vars

\* A callback ran on a running party effect that has no colours and armed
\* the next step.
C29_Witness ==
    /\ last.op = "timer"
    /\ last.note = << TRUE >>
    /\ outputs = << >>
    /\ s_instances[0].running
    /\ s_instances[0].type = EFFECT_PARTY
    /\ s_instances[0].params.party_color_count = 0
    /\ s_instances[0].timer.armed
    /\ s_instances[0].timer.tag = CB_SOFTWARE_STEP


-----------------------------------------------------------------------------
(* effect_engine.c: the timers an instance owns *)

\* The number of timers created and not deleted after the first k calls of a
\* call sequence, live0 of them being live before it.
RECURSIVE LiveAfter(_, _, _)
LiveAfter(live0, calls, k) ==
    IF k = 0 THEN live0
    ELSE LiveAfter(live0, calls, k - 1)
         + (IF calls[k] = "create" THEN 1 ELSE IF calls[k] = "delete" THEN 0 - 1 ELSE 0)

\* C30: an instance owns at most one live timer at every point of arm_timer,
\* on every path (allocation, creation or start failing included), and the
\* timer field says afterwards whether it owns one; a slot that is not
\* running owns none.
C30_OneLiveTimer ==
    /\ last.op = "arm" =>
          LET live0 == IF last.note[4] THEN 1 ELSE 0
              calls == last.note[5]
          IN  /\ \A k \in 0 .. Len(calls) : LiveAfter(live0, calls, k) \in {0, 1}
              /\ LiveAfter(live0, calls, Len(calls))
                    = (IF s_instances[last.u].timer.handle THEN 1 ELSE 0)
    /\ \A i \in LightSlots : ~s_instances[i].running => ~s_instances[i].timer.handle

\* arm_timer ran on an instance that owned a timer and esp_timer_start_once
\* failed: the old timer and the new one are both deleted.
C30_Witness ==
    /\ last.op = "arm"
    /\ last.note[2] /\ last.note[4]
    /\ last.note[3] = "start_failed"
    /\ last.note[5] = << "stop", "delete", "create", "delete" >>
    /\ ~s_instances[last.u].timer.handle


-----------------------------------------------------------------------------
(* sidus_protocol.c: the 8-bit CCT field of the HSI layouts *)

\* C31: the 8-bit cct field that sidus_build_effect packs for Strobe (6) and
\* Explosion (7) in HSI mode equals the field sidus_build_hsi packs for the
\* same cct_kelvin.
C31_EffectHsiCctMatchesHsi ==
    (last.op = "build_effect" /\ last.note[1][1] \in {6, 7} /\ last.note[1][6] = 1) =>
        LET in == last.note[1]
        IN  FieldAt(last.note[3], 22, 8)
              = FieldAt(HsiBits(in[2], in[7], in[8], in[4], 1), 38, 8)

\* A strobe packed in HSI mode for 1800 K carries 180 in the field where
\* sidus_build_hsi packs 36.
C31_EffectHsiCctDiffers ==
    /\ last.op = "build_effect"
    /\ last.note[1][1] = 6 /\ last.note[1][6] = 1 /\ last.note[1][4] = 1800
    /\ FieldAt(last.note[3], 22, 8) = 180
    /\ FieldAt(HsiBits(last.note[1][2], last.note[1][7], last.note[1][8], 1800, 1), 38, 8) = 36


-----------------------------------------------------------------------------
(* The welding effect on one light: bursts of arcs. *)

WeldIntensities == {0, 50 * FX, 100 * FX}
\* esp_random() values that give every arc count 2..5 and both ends of the
\* arc intensity range
WeldDraws == [t1 : {0, 100}, t2 : {50}, n : 0 .. 3, td : {50}, arm : {"ok"}]

WeldStart ==
    \E intensity \in WeldIntensities, r \in WeldDraws :
        StartEffect(256, EFFECT_WELDING, FlashParams(intensity, 4 * FX), r)
WeldStop == StopEffect(256)
WeldTimerFires == \E i \in LightSlots, r \in WeldDraws : TimerFires(i, r)

NextWeld == WeldStart \/ WeldStop \/ WeldTimerFires

SpecWeld == InitEngine /\ [][NextWeld]_vars

\* An arc output: the light lit at 70..100 % of params.intensity.
IsArc(o, intensity) ==
    /\ o.sleep_mode = 1
    /\ 100 * o.intensity >= 70 * intensity - 99
    /\ o.intensity <= intensity
    /\ intensity > 0 => o.intensity > 0

\* The slot that runs the effect of the step just taken, after the step.
SlotAfter == RunningSlot([World EXCEPT !.inst = s_instances'], last'.u)

-----------------------------------------------------------------------------
(* Effect parameters parsed from the params object of a command. *)

\* cJSON items.  An object is a function from the keys it holds to items.
JsonNum(v) == [kind |-> "number", v |-> v]
JsonStr(s) == [kind |-> "string", s |-> s]
JsonArr(items) == [kind |-> "array", items |-> items]

\* A NULL engine_name, and a NULL json_params
NullName == ""
NullObj == [kind |-> "null"]

IsNumberAt(obj, key) == key \in DOMAIN obj /\ obj[key].kind = "number"

\* valuedouble kept in hundredths
json_double(obj, key, fallback) ==
    IF IsNumberAt(obj, key) THEN obj[key].v * FX ELSE fallback
json_int(obj, key, fallback) ==
    IF IsNumberAt(obj, key) THEN obj[key].v ELSE fallback
json_str(obj, key, fallback) ==
    IF key \in DOMAIN obj /\ obj[key].kind = "string" THEN obj[key].s ELSE fallback

\* party_colors[i] = cJSON_IsNumber(c) ? c->valuedouble : 0, for i < n
PartyColorsOf(items, n) ==
    [k \in 1 .. n |-> IF items[k].kind = "number" THEN items[k].v ELSE 0]

\* A parser that takes every entry of partyColors.
effect_params_from_json_uncapped(params, engine_name, obj) ==
    LET n == Len(obj["partyColors"].items)
    IN  IF "partyColors" \in DOMAIN obj /\ obj["partyColors"].kind = "array"
        THEN [params EXCEPT !.intensity = json_double(obj, "intensity", 100 * FX),
                            !.cct_kelvin = json_int(obj, "cctKelvin", 5600),
                            !.saturation = json_int(obj, "saturation", 100),
                            !.hsi_cct = json_int(obj, "hsiCCT", 5600),
                            !.frequency = json_double(obj, "frequency", 8 * FX),
                            !.pulsing_max = json_double(obj, "pulsingMax", 100 * FX),
                            !.pulsing_shape = json_double(obj, "pulsingShape", 50 * FX),
                            !.strobe_hz = json_double(obj, "strobeHz", 4 * FX),
                            !.party_transition = json_double(obj, "partyTransition", 0),
                            !.party_color_count = n,
                            !.party_colors = PartyColorsOf(obj["partyColors"].items, n)]
        ELSE [params EXCEPT !.intensity = json_double(obj, "intensity", 100 * FX),
                            !.cct_kelvin = json_int(obj, "cctKelvin", 5600),
                            !.saturation = json_int(obj, "saturation", 100),
                            !.hsi_cct = json_int(obj, "hsiCCT", 5600),
                            !.frequency = json_double(obj, "frequency", 8 * FX),
                            !.pulsing_max = json_double(obj, "pulsingMax", 100 * FX),
                            !.pulsing_shape = json_double(obj, "pulsingShape", 50 * FX),
                            !.strobe_hz = json_double(obj, "strobeHz", 4 * FX),
                            !.party_color_count = 6,
                            !.party_colors = <<0, 60, 120, 180, 240, 300>>]

effect_params_from_json(params, engine_name, obj) ==
    IF obj = NullObj THEN params
    ELSE
    LET common ==
            [params EXCEPT
                !.color_mode = IF json_str(obj, "colorMode", "cct") = "hsi"
                               THEN COLOR_MODE_HSI ELSE COLOR_MODE_CCT,
                !.intensity = json_double(obj, "intensity", 100 * FX),
                !.cct_kelvin = json_int(obj, "cctKelvin", 5600),
                !.hue = json_int(obj, "hue", 0),
                !.saturation = json_int(obj, "saturation", 100),
                !.hsi_cct = json_int(obj, "hsiCCT", 5600),
                !.frequency = json_double(obj, "frequency", 8 * FX),
                !.pulsing_min = json_double(obj, "pulsingMin", 0),
                !.pulsing_max = json_double(obj, "pulsingMax", 100 * FX),
                !.pulsing_shape = json_double(obj, "pulsingShape", 50 * FX),
                !.strobe_hz = json_double(obj, "strobeHz", 4 * FX)]
        faulty ==
            IF engine_name # NullName /\ engine_name = "faultyBulb"
            THEN [common EXCEPT
                    !.faulty_min = json_double(obj, "faultyMin", 20 * FX),
                    !.faulty_max = json_double(obj, "faultyMax", 100 * FX),
                    !.faulty_bias = json_double(obj, "faultyBias", 100 * FX),
                    !.faulty_recovery = json_double(obj, "faultyRecovery", 100 * FX),
                    !.faulty_warmth = json_double(obj, "faultyWarmth", 0),
                    !.faulty_warmest_cct = json_int(obj, "warmestCCT", 2700),
                    !.faulty_points = json_int(obj, "faultyPoints", 2),
                    !.faulty_transition = json_double(obj, "faultyTransition", 0),
                    !.faulty_frequency = json_double(obj, "faultyFrequency", 5 * FX)]
            ELSE common
        party ==
            [faulty EXCEPT
                !.party_transition = json_double(obj, "partyTransition", 0),
                !.party_hue_bias = json_double(obj, "partyHueBias", 0)]
    IN  IF "partyColors" \in DOMAIN obj /\ obj["partyColors"].kind = "array"
        THEN LET n0 == Len(obj["partyColors"].items)
                 n == IF n0 > 32 THEN 32 ELSE n0
             IN  [party EXCEPT !.party_color_count = n,
                               !.party_colors = PartyColorsOf(obj["partyColors"].items, n)]
        ELSE IF party.party_color_count = 0
             THEN [party EXCEPT !.party_color_count = 6,
                                !.party_colors = <<0, 60, 120, 180, 240, 300>>]
             ELSE party

\* start_effect with a params object: the engine name picks the type, the
\* parameters are parsed into a zeroed record, the light's effect is stopped
\* and the new one started.
StartEffectJson(u, engine, obj, r) ==
    /\ engine \in DOMAIN EngineNames
    /\ LET ep == effect_params_from_json(ZeroParams, engine, obj)
           W1 == effect_engine_stop([World EXCEPT !.rnd = r], u)
           W2 == effect_engine_start(W1, u, EngineNames[engine], ep)
       IN  Commit([TransmitOutputs(W2, 1) EXCEPT !.note = <<engine, obj>>],
                  "start_json", u, "none")
    /\ stopped' = [stopped EXCEPT ![u] = FALSE]
    /\ UNCHANGED <<cryptoVars, bleVars, inflight, taskVars>>

\* update_effect: parsed with a NULL engine name into a zeroed record.
UpdateEffectJson(u, obj) ==
    UpdateEffect(u, effect_params_from_json(ZeroParams, NullName, obj))

ManyColors == [k \in 1 .. 33 |-> JsonNum((k * 10) % 360)]
PartyObjs ==
    { [frequency |-> JsonNum(15)],
      [partyColors |-> JsonArr(<< >>)],
      [partyColors |-> JsonArr(<<JsonNum(10)>>)],
      [partyColors |-> JsonArr(<<JsonNum(0), JsonStr("red"), JsonNum(240)>>),
       partyTransition |-> JsonNum(50), frequency |-> JsonNum(15)],
      [partyColors |-> JsonArr(ManyColors), frequency |-> JsonNum(15)] }
FaultyObjs ==
    { [intensity |-> JsonNum(80)],
      [faultyMin |-> JsonNum(30), faultyMax |-> JsonNum(90), faultyBias |-> JsonNum(40),
       faultyRecovery |-> JsonNum(60), faultyWarmth |-> JsonNum(50),
       warmestCCT |-> JsonNum(2000), faultyPoints |-> JsonNum(4),
       faultyTransition |-> JsonNum(10), faultyFrequency |-> JsonNum(7)] }
JsonDraws == [t1 : {0}, t2 : {50}, n : {0}, td : {50}, arm : {"ok"}]

JsonStartParty == \E obj \in PartyObjs, r \in JsonDraws : StartEffectJson(256, "party", obj, r)
JsonStartFaulty ==
    \E obj \in FaultyObjs \cup {NullObj}, r \in JsonDraws :
        StartEffectJson(256, "faulty_bulb", obj, r)
JsonUpdate == \E obj \in PartyObjs : UpdateEffectJson(256, obj)
JsonStop == StopEffect(256)
JsonTimerFires == \E i \in LightSlots, r \in JsonDraws : TimerFires(i, r)

NextJson == JsonStartParty \/ JsonStartFaulty \/ JsonUpdate \/ JsonStop \/ JsonTimerFires

SpecJson == InitEngine /\ [][NextJson]_vars

\* The party index of a running Party instance is inside its colour list.
PartyIndexInRange(inst) ==
    (inst.running /\ inst.type = EFFECT_PARTY) =>
        /\ inst.party_color_index >= 0
        /\ inst.params.party_color_count \in 0 .. 32
        /\ inst.params.party_color_count > 0 =>
               inst.party_color_index < inst.params.party_color_count

\* C33: across steps and updates of a Party effect the index used on
\* party_colors satisfies 0 <= party_color_index < party_color_count <= 32,
\* and each party step advances it by one modulo party_color_count.
C33_PartyIndex ==
    [][/\ \A i \in LightSlots : PartyIndexInRange(s_instances'[i])
       /\ (last'.op = "start_json" /\ last'.note[1] = "party") =>
            LET b == s_instances'[SlotAfter]
            IN  b.party_color_index =
                    IF b.params.party_color_count > 0
                    THEN 1 % b.params.party_color_count ELSE 0
       /\ (last'.op = "timer" /\ SlotAfter # -1
             /\ s_instances'[SlotAfter].type = EFFECT_PARTY) =>
            LET a == s_instances[SlotAfter]
                b == s_instances'[SlotAfter]
                n == a.params.party_color_count
                advanced == /\ n > 0
                            /\ a.party_color_index \in 0 .. (n - 1)
                            /\ b.party_color_index = (a.party_color_index + 1) % n
            IN  /\ b.party_color_index # a.party_color_index => advanced
                /\ (a.timer.tag = CB_SOFTWARE_STEP /\ n > 0) => advanced]_vars

\* A party step wrapped the index of a 32-colour list (cut from 33 supplied)
\* back to 0.
C33_Witness ==
    /\ last.op = "timer"
    /\ last.note = <<CB_SOFTWARE_STEP>>
    /\ s_instances[0].running /\ s_instances[0].type = EFFECT_PARTY
    /\ s_instances[0].params.party_color_count = 32
    /\ s_instances[0].party_color_index = 0


\* The value params supplies for key, or the parser default when absent.
Supplied(obj, key, default) ==
    IF obj # NullObj /\ IsNumberAt(obj, key) THEN obj[key].v ELSE default

\* C36: after start_effect with engine faulty_bulb the instance's faulty
\* parameters equal the values supplied in params, or the parser defaults
\* (20, 100, 100, 100, 0, 2700, 2, 0, 5) for absent fields.
C36_FaultyParamsParsed ==
    (last.op = "start_json" /\ last.note[1] = "faulty_bulb") =>
        LET p == s_instances[RunningSlot(World, last.u)].params
            obj == last.note[2]
        IN  /\ p.faulty_min = Supplied(obj, "faultyMin", 20) * FX
            /\ p.faulty_max = Supplied(obj, "faultyMax", 100) * FX
            /\ p.faulty_bias = Supplied(obj, "faultyBias", 100) * FX
            /\ p.faulty_recovery = Supplied(obj, "faultyRecovery", 100) * FX
            /\ p.faulty_warmth = Supplied(obj, "faultyWarmth", 0) * FX
            /\ p.faulty_warmest_cct = Supplied(obj, "warmestCCT", 2700)
            /\ p.faulty_points = Supplied(obj, "faultyPoints", 2)
            /\ p.faulty_transition = Supplied(obj, "faultyTransition", 0) * FX
            /\ p.faulty_frequency = Supplied(obj, "faultyFrequency", 5) * FX

\* A faulty_bulb effect started with faultyMin 30, faultyMax 90 and
\* faultyPoints 4 runs with all three at 0.
C36_FaultyParamsZero ==
    /\ last.op = "start_json" /\ last.note[1] = "faulty_bulb"
    /\ last.note[2] # NullObj
    /\ IsNumberAt(last.note[2], "faultyMin") /\ last.note[2]["faultyMin"].v = 30
    /\ s_instances[0].running /\ s_instances[0].type = EFFECT_FAULTY_BULB
    /\ s_instances[0].params.faulty_min = 0
    /\ s_instances[0].params.faulty_max = 0
    /\ s_instances[0].params.faulty_points = 0
    /\ s_instances[0].params.faulty_frequency = 0


-----------------------------------------------------------------------------
(* Field widths of the Sidus payloads. *)

\* The inputs of the last builder call lie in the documented ranges.
InDocumentedRanges ==
    LET in == last.note[1]
    IN  CASE last.op = "build_cct" ->
               in[1] \in 0 .. 10000 /\ in[2] \in 1800 .. 20000 /\ in[3] \in {0, 1}
          [] last.op = "build_hsi" ->
               /\ in[1] \in 0 .. 10000 /\ in[2] \in 0 .. 360 /\ in[3] \in 0 .. 100
               /\ in[4] \in 1800 .. 20000 /\ in[5] \in {0, 1}
          [] last.op = "build_effect" ->
               /\ in[2] \in 0 .. 10000 /\ in[3] \in 0 .. 15 /\ in[4] \in 1800 .. 20000
               /\ in[6] \in {0, 1} /\ in[7] \in 0 .. 360 /\ in[8] \in 0 .. 100
          [] last.op = "build_sleep" -> TRUE
          [] OTHER -> FALSE

\* C37: for inputs in the documented ranges every value handed to
\* append_segment fits its width, 0 <= value < 2^width.
C37_SegmentsFit ==
    InDocumentedRanges =>
        \A k \in 1 .. Len(last.note[4]) :
            LET seg == last.note[4][k]
            IN  0 <= seg[1] /\ seg[1] < Pow2(seg[2])

\* The Fire payload for 20000 K and frequency 8: cct = 2000 goes into a 10-bit
\* field, which holds 2000 - 1024 = 976.
C37_CctTruncated ==
    /\ last.op = "build_effect"
    /\ InDocumentedRanges
    /\ last.note[1][1] = 5 /\ last.note[1][4] = 20000
    /\ last.note[4][5] = <<2000, 10>>
    /\ FieldAt(last.note[3], 40, 10) = 976


-----------------------------------------------------------------------------
(* The instance pool with more lights than slots: eight lights run an       *)
(* effect from the start, three more lights share the last slot and the     *)
(* slot of the first.                                                       *)

PoolBackground == 512 .. 519        \* 0x0200 .. 0x0207
PoolUnicasts == {256, 257, 512}
PoolTypes == {EFFECT_LIGHTNING}

EmptyWorld ==
    [EmptyPool EXCEPT !.lights = light_registry_add([i \in LightSlots |-> NoLight], 256),
                      !.rnd = [t1 |-> 0, t2 |-> 50, n |-> 0, td |-> 50, arm |-> "ok"]]

\* The pool after effect_engine_start for each of the lights u .. hi in turn.
RECURSIVE StartLights(_, _, _)
StartLights(W, u, hi) ==
    IF u > hi THEN W
    ELSE StartLights(effect_engine_start(W, u, EFFECT_CANDLE, DefaultParams), u + 1, hi)

InitPool ==
    /\ InitCommon
    /\ s_network_key = 0 /\ s_app_key = 0 /\ s_iv_index = 0 /\ s_src_address = 0
    /\ s_encryption_key = 0 /\ s_privacy_key = 0 /\ s_nid = 0 /\ s_aid = 0
    /\ s_initialized = FALSE
    /\ s_sequence_number = U32(0, SEQ_INITIAL)
    /\ s_instances = StartLights(EmptyWorld, 512, 519).inst
    /\ pdu_log = << >>
    /\ lights = EmptyWorld.lights
    /\ last = Last("boot", 0)

\* One engine call for light u; the note keeps the pool as it was before.
PoolCall(op, u, W) ==
    /\ Commit([TransmitOutputs(W, 1) EXCEPT !.note = <<s_instances>>], op, u, "none")
    /\ UNCHANGED <<cryptoVars, bleVars, inflight, stopped, taskVars>>

PoolStart ==
    \E u \in PoolUnicasts, t \in PoolTypes, r \in EngineDraws :
        PoolCall("pool_start", u, effect_engine_start([World EXCEPT !.rnd = r], u, t, DefaultParams))
PoolUpdate ==
    \E u \in PoolUnicasts : PoolCall("pool_update", u, effect_engine_update(World, u, DimHsiParams))
PoolStop ==
    \E u \in PoolUnicasts : PoolCall("pool_stop", u, effect_engine_stop(World, u))
PoolTimerFires == \E i \in LightSlots, r \in EngineDraws : TimerFires(i, r)

NextPool == PoolStart \/ PoolUpdate \/ PoolStop \/ PoolTimerFires

SpecPool == InitPool /\ [][NextPool]_vars

PoolFull(pool) == \A i \in LightSlots : pool[i].running

\* The slot that runs an effect for unicast in pool, or -1.
SlotIn(pool, unicast) == RunningSlot([World EXCEPT !.inst = pool], unicast)

\* C39: effect_engine_start, _update and _stop for unicast A leave the
\* instance of every other unicast B as it was (type, parameters, runtime
\* state, running flag, armed timer), also when the pool is full.
C39_OtherInstancesUnchanged ==
    (last.op \in {"pool_start", "pool_update", "pool_stop"}) =>
        \A B \in (PoolBackground \cup PoolUnicasts) \ {last.u} :
            LET before == last.note[1]
                i == SlotIn(before, B)
            IN  IF i = -1 THEN SlotIn(s_instances, B) = -1
                ELSE s_instances[i] = before[i]

\* effect_engine_start for light 0x0101 found every slot running: no
\* instance was started and the nine running ones are as they were.
C39_Witness ==
    /\ last.op = "pool_start" /\ last.u = 257
    /\ PoolFull(last.note[1])
    /\ SlotIn(last.note[1], 257) = -1
    /\ SlotIn(s_instances, 257) = -1
    /\ SlotIn(s_instances, 256) = 8
    /\ PoolFull(s_instances)


-----------------------------------------------------------------------------
(* Order of the PDUs written to a proxy connection. *)

\* The PDUs written to proxy slot s since the start, in order (old marks the
\* PDUs of an earlier power cycle).
WrittenTo(s) == SelectSeq(pdu_log, LAMBDA e : e.px = s /\ ~e.old)

\* C38: on every proxy connection a proxy filter setup PDU (type 0x02) is
\* written before any standard network PDU (type 0x00), whatever the order of
\* set_keys and the connection becoming ready.  Stated per proxy slot: the
\* first PDU written to a slot is a filter setup.
C38_FilterSetupFirst ==
    \A s \in ProxySlots : WrittenTo(s) # << >> => WrittenTo(s)[1].hdr = 2

\* A connection became ready before set_keys: once the keys are set a
\* standard PDU is written to it and no filter setup ever was.
C38_StandardPduWithoutFilter ==
    /\ s_initialized
    /\ s_proxies[0].active /\ s_proxies[0].ready
    /\ WrittenTo(0) # << >>
    /\ \A k \in 1 .. Len(pdu_log) : pdu_log[k].hdr # 2
    /\ last.op = "set_cct"
    /\ WrittenTo(0)[Len(WrittenTo(0))].hdr = 0


-----------------------------------------------------------------------------
(* Timer contexts: every calloc and free of a timer_ctx_t, with timers that *)
(* fire, are cancelled, or fail to be created or started.                   *)

CtxTypes == {EFFECT_LIGHTNING, EFFECT_STROBE, EFFECT_PAPARAZZI}
CtxDraws == [t1 : {0}, t2 : {50}, n : {0}, td : {50}, arm : ArmOutcomes]

\* The timers that are armed, one per slot at most.
ArmedTimers == Cardinality({i \in LightSlots : s_instances[i].timer.armed})

\* One engine call; the note keeps the calloc and free calls it made and the
\* number of timers that were armed before it.
CtxCall(op, u, W) ==
    /\ Commit([TransmitOutputs(W, 1) EXCEPT !.note = <<W.heap, ArmedTimers>>],
              op, u, "none")
    /\ UNCHANGED <<cryptoVars, bleVars, inflight, stopped, taskVars>>

CtxStart ==
    \E u \in EffectUnicasts, t \in CtxTypes, r \in CtxDraws :
        CtxCall("ctx_start", u,
                effect_engine_start([World EXCEPT !.rnd = r], u, t, DefaultParams))
CtxUpdate ==
    \E u \in EffectUnicasts : CtxCall("ctx_update", u, effect_engine_update(World, u, DimHsiParams))
CtxStop ==
    \E u \in EffectUnicasts : CtxCall("ctx_stop", u, effect_engine_stop(World, u))
\* The timer of slot i expires and the timer task runs timer_dispatch on its
\* context.
CtxTimerFires ==
    \E i \in LightSlots, r \in CtxDraws :
        /\ s_instances[i].timer.armed
        /\ CtxCall("ctx_timer", s_instances[i].unicast,
                   timer_dispatch([World EXCEPT !.inst[i].timer.armed = FALSE, !.rnd = r],
                                  CtxOf(i)))

NextCtx == CtxStart \/ CtxUpdate \/ CtxStop \/ CtxTimerFires

SpecCtx == InitEngine /\ [][NextCtx]_vars

CtxOps == {"ctx_start", "ctx_update", "ctx_stop", "ctx_timer"}

\* C35: every timer context allocated by arm_timer is released exactly once,
\* whether its timer fires, is cancelled by effect_engine_stop, or fails to be
\* created or started, so that the number of live contexts equals the number
\* of armed timers: each call changes both by the same amount.
C35_ContextsMatchTimers ==
    [][last'.op \in CtxOps =>
          last'.note[1].calloc - last'.note[1].free = ArmedTimers' - ArmedTimers]_vars

\* effect_engine_stop cancelled an armed timer and freed nothing: the
\* context of that timer stays allocated with no timer left to release it.
C35_CancelLeaksContext ==
    /\ last.op = "ctx_stop"
    /\ last.note[2] = 1
    /\ ArmedTimers = 0
    /\ last.note[1] = NoHeapCalls


-----------------------------------------------------------------------------
(* The timer task against the command task.  The timer task takes an        *)
(* expired timer off its list, enters timer_dispatch and reads              *)
(* inst->running, and then runs the case of the tag; effect_engine_stop and *)
(* effect_engine_start of the command task run between any two of these     *)
(* steps.  A command is not split further: the interleavings below are a    *)
(* part of those at statement granularity.                                  *)

NoCallback == [ctx |-> [inst |-> 0, tag |-> 0, d1 |-> 0, d2 |-> 0, d3 |-> 0,
                        i1 |-> 0, i2 |-> 0],
               owner |-> 0]

InitRace ==
    /\ s_proxies = [i \in ProxySlots |-> NoProxy]
    /\ s_proxy_count = 0
    /\ s_scanning = FALSE
    /\ inflight = {}
    /\ stopped = [u \in Unicasts |-> FALSE]
    /\ outputs = << >>
    /\ events = << >>
    /\ s_network_key = 0 /\ s_app_key = 0 /\ s_iv_index = 0 /\ s_src_address = 0
    /\ s_encryption_key = 0 /\ s_privacy_key = 0 /\ s_nid = 0 /\ s_aid = 0
    /\ s_initialized = FALSE
    /\ s_sequence_number = U32(0, SEQ_INITIAL)
    /\ s_instances = [i \in LightSlots |-> NoInstance]
    /\ pdu_log = << >>
    /\ lights = light_registry_add([i \in LightSlots |-> NoLight], 256)
    /\ last = Last("boot", 0)
    /\ pc = [t \in {"timer"} |-> [at |-> "idle", n |-> 0]]
    /\ reg = [t \in {"timer"} |-> NoCallback]
    /\ tseq = [t \in {"timer"} |-> 0]

RaceStart ==
    \E u \in Unicasts, t \in EngineTypes, r \in EngineDraws :
        StartEffect(u, t, DefaultParams, r)
RaceStop == \E u \in Unicasts : StopEffect(u)

\* The timer of slot i expires: the timer task takes it with its context.
\* owner is the light the timer was armed for.
RaceTake ==
    \E i \in LightSlots :
        /\ pc["timer"].at = "idle"
        /\ s_instances[i].timer.armed
        /\ pc' = [pc EXCEPT !["timer"].at = "taken"]
        /\ reg' = [reg EXCEPT !["timer"] = [ctx |-> CtxOf(i),
                                            owner |-> s_instances[i].unicast]]
        /\ Commit([World EXCEPT !.inst[i].timer.armed = FALSE], "expire", 0, "none")
        /\ UNCHANGED <<cryptoVars, bleVars, inflight, stopped, tseq>>

\* timer_dispatch up to its test of inst->running.
RaceCheck ==
    /\ pc["timer"].at = "taken"
    /\ pc' = [pc EXCEPT !["timer"].at =
                 IF s_instances[reg["timer"].ctx.inst].running THEN "checked" ELSE "idle"]
    /\ Commit([World EXCEPT !.note = <<s_instances[reg["timer"].ctx.inst].running>>],
              "timer_check", s_instances[reg["timer"].ctx.inst].unicast, "none")
    /\ UNCHANGED <<cryptoVars, bleVars, inflight, stopped, reg, tseq>>

\* timer_dispatch from free(ctx) on: the case of the tag.  The note keeps the
\* light the timer was armed for, the light of the slot now, the tag and
\* whether the slot runs.
RaceAct ==
    \E r \in EngineDraws :
        /\ pc["timer"].at = "checked"
        /\ pc' = [pc EXCEPT !["timer"].at = "idle"]
        /\ LET c == reg["timer"].ctx
               W == DispatchTag([World EXCEPT !.rnd = r, !.heap.free = @ + 1], c)
           IN  Commit([TransmitOutputs(W, 1) EXCEPT
                          !.note = <<reg["timer"].owner, s_instances[c.inst].unicast,
                                     c.tag, s_instances[c.inst].running, c.inst>>],
                      "timer_act", s_instances[c.inst].unicast, "none")
        /\ UNCHANGED <<cryptoVars, bleVars, inflight, stopped, reg, tseq>>

NextRace == RaceStart \/ RaceStop \/ RaceTake \/ RaceCheck \/ RaceAct

SpecRace == InitRace /\ [][NextRace]_vars

\* C34: with the timer task and the command task interleaved, no output for
\* unicast u is emitted after effect_engine_stop(u) has returned (and before
\* it is started again), and the callback of a stopped instance neither emits
\* output for nor arms a timer on an instance started later in its slot.
C34_NoStaleCallback ==
    /\ \A k \in 1 .. Len(outputs) : ~stopped[outputs[k].unicast]
    /\ (last.op = "timer_act" /\ last.note[1] # last.note[2]) =>
          /\ outputs = << >>
          /\ ~s_instances[last.note[5]].timer.armed

\* The callback of a timer armed for light 0x0100 ran after that effect was
\* stopped and an effect for 0x0101 was started in the same slot: it sent a
\* colour to 0x0101 and armed a timer on the new instance.
C34_StaleCallbackActs ==
    /\ last.op = "timer_act"
    /\ last.note[1] = 256 /\ last.note[2] = 257
    /\ stopped[256]
    /\ Len(outputs) > 0 /\ outputs[1].unicast = 257
    /\ s_instances[last.note[5]].running
    /\ s_instances[last.note[5]].unicast = 257
    /\ s_instances[last.note[5]].timer.armed

====
